---- MODULE Spec2Model ----
(***************************************************************************)
(* juliet: the per-sample log-likelihood (loglike) and the module-level    *)
(* state it reads and writes.                                              *)
(*                                                                         *)
(* Numbers.  Every sampled quantity is a fixed-point integer:              *)
(*   a, b, p, ecc, ecosomega, esinomega, secosomega, sesinomega            *)
(*                                  in hundredths (95 is 0.95),            *)
(*   periods, angles (degrees) and every other parameter in units;         *)
(*   a derived quantity (resolved eccentricity, inc_inv_factor) is a       *)
(*   reduced fraction [n, d].                                              *)
(* The comparisons of the source are carried out exactly on these          *)
(* rationals.  The oracles (batman, radvel, george/celerite) are not       *)
(* evaluated: a likelihood term records the arguments handed to them, so   *)
(* two returned values are equal exactly when the oracles were driven      *)
(* with the same arguments.                                                *)
(***************************************************************************)
EXTENDS Integers, Sequences, FiniteSets, TLC

VARIABLES
    cfg,              \* the run's configuration: command line + priors file
    cvalue,           \* priors[pname]['cvalue'] for every registered pname
    params,           \* lc_dictionary[instrument]['params'] (batman)
    radvel_params,    \* radvel_params: 'per','tc','w','e','k' of planet n
    GPVector,         \* lc_dictionary[instrument]['GPVector']; index 0: RVs
    rvresiduals,      \* pooled RV residuals, one entry per RV instrument
    rvresiduals_err,  \* pooled RV errors, one entry per RV instrument
    frame,            \* frame[w]: the locals of evaluation slot w
    nevals,           \* number of loglike calls started so far
    transformed_priors, \* the module-level array prior() fills under dynesty
    held,             \* the vectors the sampler holds from its prior() calls
    out,              \* the `out` dictionary of the sampling block
    disk,             \* the files of the output folder
    run,              \* the script run in progress: its options and position
    bp,               \* an (r1, r2) draw and the (b, p) computed from it
    probe             \* a statement of the script run on drawn inputs, and its result

\* The state of the script around loglike.
script_vars == <<transformed_priors, held, out, disk, run, bp, probe>>

vars == <<cfg, cvalue, params, radvel_params, GPVector, rvresiduals,
          rvresiduals_err, frame, nevals, transformed_priors, held, out, disk,
          run, bp, probe>>

\* Number of loglike calls the sampler makes in one explored run.
MaxEvals == 3

-----------------------------------------------------------------------------
(* Exact rationals [n, d], d > 0, in lowest terms.                         *)

RECURSIVE GCD(_, _)
GCD(x, y) == IF y = 0 THEN x ELSE GCD(y, x % y)

Abs(x) == IF x < 0 THEN -x ELSE x

Rat(n, d) ==
    LET g == GCD(Abs(n), Abs(d))
        s == IF d < 0 THEN -1 ELSE 1
    IN  [n |-> s * (n \div g), d |-> s * (d \div g)]

RInt(k) == [n |-> k, d |-> 1]

\* A parameter value given in hundredths.
Hund(v) == Rat(v, 100)

RMul(x, y) ==
    LET g1 == GCD(Abs(x.n), y.d)
        g2 == GCD(Abs(y.n), x.d)
    IN  Rat((x.n \div g1) * (y.n \div g2), (x.d \div g2) * (y.d \div g1))

RAdd(x, y) ==
    LET g == GCD(x.d, y.d)
    IN  Rat(x.n * (y.d \div g) + y.n * (x.d \div g), x.d * (y.d \div g))

RNeg(x) == [n |-> -x.n, d |-> x.d]

RSub(x, y) == RAdd(x, RNeg(y))

\* x / y for y # 0.
RDiv(x, y) == RMul(x, Rat(y.d, y.n))

RLt(x, y) == RSub(x, y).n < 0

RGt(x, y) == RLt(y, x)

RGe(x, y) == ~RLt(x, y)

\* np.sqrt of a perfect square (the supports below keep it exact).
Sqrt(k) == CHOOSE r \in 0..k : r * r = k

-----------------------------------------------------------------------------
(* Parameter names.  'P_p'+str(i) is <<"P_p", i>>; a per-instrument name   *)
(* such as 'q1_'+instrument is <<"q1", k>> with k the instrument; a global *)
(* name such as 'rv_slope' is <<"rv_slope", 0>>; the RV group of a GP      *)
(* hyperparameter is instrument 0.                                         *)

PName(kind, i) == <<kind, i>>

\* One line of the priors file: a parameter of kind 'fixed' when its
\* support is one value, a free ('uniform') one otherwise.  value is the
\* fixed value or the discretised support of the prior.
Par(kind, i, S) ==
    [name |-> PName(kind, i),
     type |-> IF Cardinality(S) = 1 THEN "fixed" ELSE "uniform",
     value |-> S]

\* priors.keys()
Keys(priors) == {priors[k].name : k \in 1..Len(priors)}

\* The nuisance parameters of photometric instrument k.
LcInstrumentPriors(k) ==
    << Par("q1", k, {25}), Par("q2", k, {30}), Par("mdilution", k, {1}),
       Par("mflux", k, {0}), Par("sigma_w", k, {200 + k}) >>

\* The nuisance parameters of RV instrument k.
RvInstrumentPriors(k) ==
    << Par("mu", k, {7}), Par("sigma_w_rv", k, {3}) >>

\* The orbit and geometry of planet i.
OrbitPriors(i, Pset, aset, bset) ==
    << Par("P_p", i, Pset), Par("t0_p", i, {2 + i}), Par("a_p", i, aset),
       Par("b_p", i, bset), Par("p_p", i, {10}) >>

\* The three eccentricity parametrizations of planet i.
DirectPriors(i, eset, wset) ==
    << Par("ecc_p", i, eset), Par("omega_p", i, wset) >>

CosSinPriors(i, cset, sset) ==
    << Par("ecosomega_p", i, cset), Par("esinomega_p", i, sset) >>

SqrtCosSinPriors(i, cset, sset) ==
    << Par("secosomega_p", i, cset), Par("sesinomega_p", i, sset) >>

\* CeleriteQP hyperparameters of group g (an instrument, or 0 for the RVs).
CeleritePriors(g, Bset) ==
    << Par("GP_B", g, Bset), Par("GP_L", g, {5}), Par("GP_Prot", g, {3}),
       Par("GP_C", g, {1}) >>

-----------------------------------------------------------------------------
(* The runs explored.  Each is one command line with one priors file; the  *)
(* supports hold the values on and around every gate of loglike.           *)

\* Three transiting planets, photometry only, a stellar-density
\* constraint; the periods are sampled.
PriorsPeriods ==
    OrbitPriors(1, {-1, 0, 3, 5}, {1500}, {0}) \o DirectPriors(1, {0}, {90}) \o
    OrbitPriors(2, {-1, 0, 3, 5}, {1500}, {0}) \o DirectPriors(2, {0}, {90}) \o
    OrbitPriors(3, {5, 10}, {1500}, {0}) \o DirectPriors(3, {0}, {90}) \o
    LcInstrumentPriors(1)

\* Three transiting planets, one per eccentricity parametrization; the
\* eccentricity parameters are sampled.
PriorsEcc ==
    OrbitPriors(1, {3}, {1500}, {0}) \o DirectPriors(1, {-5, 0, 94, 95, 96}, {90}) \o
    OrbitPriors(2, {5}, {1500}, {0}) \o CosSinPriors(2, {0}, {-96, 0, 95, 96}) \o
    OrbitPriors(3, {10}, {1500}, {0}) \o SqrtCosSinPriors(3, {0}, {0, 97, 98}) \o
    LcInstrumentPriors(1)

\* One transiting planet seen by two photometric instruments; the
\* geometry (a, b, ecc, omega) is sampled.
PriorsGeom ==
    LcInstrumentPriors(1) \o
    OrbitPriors(1, {3}, {100, 110, 300}, {0, 100, 110, 111}) \o
    DirectPriors(1, {0, 50}, {90, 270}) \o
    LcInstrumentPriors(2)

\* Planet 1 transits and is in the RVs, planet 2 is in the RVs only; one
\* photometric instrument with a CeleriteQP GP, one RV instrument.
PriorsJoint ==
    OrbitPriors(1, {3, 5}, {1500}, {0}) \o CosSinPriors(1, {0}, {30}) \o
    << Par("K_p", 1, {11}) >> \o
    << Par("P_p", 2, {3, 5}), Par("t0_p", 2, {4}), Par("K_p", 2, {12}) >> \o
    DirectPriors(2, {0, 96, 100, 101}, {90}) \o
    LcInstrumentPriors(1) \o CeleritePriors(1, {1, 2}) \o
    RvInstrumentPriors(1)

\* ... and the same with a CeleriteQP GP on the RVs and a linear RV trend.
PriorsJointRvGP ==
    PriorsJoint \o CeleritePriors(0, {2}) \o
    << Par("rv_slope", 0, {2}), Par("rv_tzero", 0, {5}) >>

Run(id, priors, nt, nrv, lcs, rvs, gps, rvgp, sd) ==
    [id |-> id, priors |-> priors,
     numbering_transit |-> nt, numbering_rv |-> nrv,
     lcfilename |-> lcs # <<>>, inames_lc |-> lcs,
     rvfilename |-> rvs # <<>>, inames_rv |-> rvs,
     GPDetrend |-> gps, rveparamfile |-> rvgp, stellar_density |-> sd]

RunPeriods == Run("periods", PriorsPeriods, <<1, 2, 3>>, <<>>, <<1>>, <<>>, {}, FALSE, TRUE)

RunEcc == Run("ecc", PriorsEcc, <<1, 2, 3>>, <<>>, <<1>>, <<>>, {}, FALSE, FALSE)

RunGeom == Run("geom", PriorsGeom, <<1>>, <<>>, <<1, 2>>, <<>>, {}, FALSE, FALSE)

RunJoint == Run("joint", PriorsJoint, <<1>>, <<1, 2>>, <<1>>, <<1>>, {1}, FALSE, TRUE)

RunJointRvGP == Run("jointgp", PriorsJointRvGP, <<1>>, <<1, 2>>, <<1>>, <<1>>, {1}, TRUE, TRUE)

\* One transiting planet, one photometric instrument with a CeleriteQP GP;
\* the period and the GP amplitude are sampled.
PriorsPool ==
    OrbitPriors(1, {3, 5}, {1500}, {0}) \o DirectPriors(1, {0}, {90}) \o
    LcInstrumentPriors(1) \o CeleritePriors(1, {1, 2})

RunPool == Run("pool", PriorsPool, <<1>>, <<>>, <<1>>, <<>>, {1}, FALSE, FALSE)

\* One RV planet, one RV instrument, no photometry; a stellar-density
\* constraint is given on the command line.
PriorsRvOnly ==
    << Par("P_p", 1, {3}), Par("t0_p", 1, {3}), Par("K_p", 1, {11, 12}) >> \o
    DirectPriors(1, {0, 101}, {90}) \o
    << Par("mu", 1, {7, 8}), Par("sigma_w_rv", 1, {3}) >>

RunRvOnly == Run("rvonly", PriorsRvOnly, <<>>, <<1>>, <<>>, <<1>>, {}, FALSE, TRUE)

\* One transiting planet, one photometric instrument with a CeleriteQP GP
\* whose amplitude, timescale and jitter are sampled.
PriorsCelerite ==
    OrbitPriors(1, {3}, {1500}, {0}) \o DirectPriors(1, {0}, {90}) \o
    << Par("q1", 1, {25}), Par("q2", 1, {30}), Par("mdilution", 1, {1}),
       Par("mflux", 1, {0}), Par("sigma_w", 1, {100, 150}) >> \o
    << Par("GP_B", 1, {2, 4}), Par("GP_L", 1, {5, 6}), Par("GP_Prot", 1, {3}),
       Par("GP_C", 1, {1}) >>

RunCelerite == Run("celerite", PriorsCelerite, <<1>>, <<>>, <<1>>, <<>>, {1}, FALSE, FALSE)

\* One RV planet, one RV instrument, a trend in the RVs: linear when the
\* priors hold rv_slope, quadratic when they hold rv_quad as well.
PriorsRvLine ==
    << Par("P_p", 1, {3}), Par("t0_p", 1, {3}), Par("K_p", 1, {11}) >> \o
    DirectPriors(1, {0}, {90}) \o RvInstrumentPriors(1) \o
    << Par("rv_slope", 0, {-2, 3}), Par("rv_tzero", 0, {0, 5}) >>

PriorsRvQuad == PriorsRvLine \o << Par("rv_quad", 0, {-1, 2}) >>

RunRvLine == Run("rvline", PriorsRvLine, <<>>, <<1>>, <<>>, <<1>>, {}, FALSE, FALSE)

RunRvQuad == Run("rvquad", PriorsRvQuad, <<>>, <<1>>, <<>>, <<1>>, {}, FALSE, FALSE)

\* The same planet and instrument with rv_quad but no rv_slope.
PriorsRvQuadOnly ==
    << Par("P_p", 1, {3}), Par("t0_p", 1, {3}), Par("K_p", 1, {11}) >> \o
    DirectPriors(1, {0}, {90}) \o RvInstrumentPriors(1) \o
    << Par("rv_tzero", 0, {0, 5}), Par("rv_quad", 0, {-1, 2}) >>

RunRvQuadOnly ==
    Run("rvquadonly", PriorsRvQuadOnly, <<>>, <<1>>, <<>>, <<1>>, {}, FALSE, FALSE)

\* One RV planet and two RV instruments whose offsets and jitters are
\* sampled, with and without a CeleriteQP GP on the RVs.
PriorsRvTwo ==
    << Par("P_p", 1, {3}), Par("t0_p", 1, {3}), Par("K_p", 1, {11}) >> \o
    DirectPriors(1, {0}, {90}) \o
    << Par("mu", 1, {7}), Par("sigma_w_rv", 1, {3, 4}),
       Par("mu", 2, {8, 9}), Par("sigma_w_rv", 2, {5}) >> \o
    CeleritePriors(0, {2})

RunRvTwoGP == Run("rvtwogp", PriorsRvTwo, <<>>, <<1>>, <<>>, <<1, 2>>, {}, TRUE, FALSE)

RunRvTwo == Run("rvtwo", PriorsRvTwo, <<>>, <<1>>, <<>>, <<1, 2>>, {}, FALSE, FALSE)

\* Two transiting planets with different a and P seen by two photometric
\* instruments, and a stellar-density constraint.
PriorsDensity ==
    OrbitPriors(1, {3}, {1500, 1600}, {0}) \o DirectPriors(1, {0}, {90}) \o
    OrbitPriors(2, {5, 7}, {2500}, {0}) \o DirectPriors(2, {0}, {90}) \o
    LcInstrumentPriors(1) \o LcInstrumentPriors(2)

RunDensity ==
    Run("density", PriorsDensity, <<1, 2>>, <<>>, <<1, 2>>, <<>>, {}, FALSE, TRUE)

Runs ==
    {RunPeriods, RunEcc, RunGeom, RunJoint, RunJointRvGP, RunRvOnly, RunCelerite,
     RunRvLine, RunRvQuad, RunRvQuadOnly, RunRvTwoGP, RunRvTwo, RunDensity}

-----------------------------------------------------------------------------
(* Setup: what the script derives from the priors before sampling.         *)

\* n_params: the number of non-fixed entries of the priors.
n_params(c) == Cardinality({k \in 1..Len(c.priors) : c.priors[k].type # "fixed"})

\* A line fitted whenever rv_slope is registered.
fitrvline_with_quad(c) ==
    PName("rv_slope", 0) \in Keys(c.priors)

fitrvline(c) ==
    PName("rv_slope", 0) \in Keys(c.priors) /\ PName("rv_quad", 0) \notin Keys(c.priors)

fitrvquad(c) ==
    PName("rv_slope", 0) \in Keys(c.priors) /\ PName("rv_quad", 0) \in Keys(c.priors)

fitrho(c) == PName("rho", 0) \in Keys(c.priors)

\* ecc_parametrization[...][i]: 1 for ecosomega, 2 for secosomega, else 0.
\* The transit and the RV loop run the same test on the same priors.
ecc_parametrization(c, i) ==
    IF PName("ecosomega_p", i) \in Keys(c.priors) THEN 1
    ELSE IF PName("secosomega_p", i) \in Keys(c.priors) THEN 2
    ELSE 0

\* The group bound to a CeleriteQP role of instrument k (0: the RVs): the
\* loop over priors.keys() does not break, so the last match stays.
GPGroup(c, role, k) ==
    LET hits == {j \in 1..Len(c.priors) : c.priors[j].name = PName(role, k)}
    IN  c.priors[CHOOSE j \in hits : \A h \in hits : h <= j].name[2]

\* np.zeros(5), entry by entry: a number that is not yet a logarithm.
GPVectorZeros == [j \in 1..5 |-> [fn |-> "zero", arg |-> RInt(0)]]

\* batman.TransitParams() as init_batman leaves it.
init_batman ==
    [t0 |-> 0, per |-> 1, rp |-> Hund(10), a |-> RInt(15),
     inc |-> [fn |-> "deg", arg |-> RInt(87)], ecc |-> RInt(0),
     w |-> [fn |-> "deg", y |-> 90, x |-> 0], u |-> <<10, 30>>]

\* radvel.model.Parameters(nplanets): nothing is set for planet n yet.
init_radvel ==
    [per |-> 0, tc |-> 0, w |-> [fn |-> "rad", y |-> 0, x |-> 0],
     e |-> RInt(0), k |-> 0]

\* The module-level state when the sampler starts: cvalue of a fixed
\* parameter is its value; of a free one, a placeholder never read.
SetupStore(c) ==
    [cvalue |-> [nm \in Keys(c.priors) |->
                    LET e == c.priors[CHOOSE k \in 1..Len(c.priors) : c.priors[k].name = nm]
                    IN  IF e.type = "fixed" THEN CHOOSE v \in e.value : TRUE ELSE 0],
     params |-> [k \in 1..Len(c.inames_lc) |-> init_batman],
     radvel_params |-> [n \in 1..Len(c.numbering_rv) |-> init_radvel],
     GPVector |-> [k \in 0..Len(c.inames_lc) |-> GPVectorZeros],
     rvresiduals |-> [k \in 1..Len(c.inames_rv) |-> <<>>],
     rvresiduals_err |-> [k \in 1..Len(c.inames_rv) |-> <<>>]]

\* The value loglike returns for an infeasible sample.
Floor == [floor |-> TRUE, terms |-> <<>>]

\* The locals of an evaluation slot with no call in progress.
IdleFrame ==
    [pc |-> "idle", cube |-> <<>>, lcmodel |-> <<>>, log_likelihood |-> <<>>,
     a |-> RInt(0), P |-> 0, rvmodel |-> <<>>, trend |-> <<>>,
     ret |-> Floor, gate |-> "none", calls |-> <<>>]

\* The sampler's physical vectors: one value of its support for every
\* free parameter, in priors order.
RECURSIVE CubesFrom(_, _)
CubesFrom(priors, k) ==
    IF k > Len(priors) THEN {<<>>}
    ELSE IF priors[k].type = "fixed" THEN CubesFrom(priors, k + 1)
    ELSE {<<v>> \o t : v \in priors[k].value, t \in CubesFrom(priors, k + 1)}

Cubes(c) == CubesFrom(c.priors, 1)

-----------------------------------------------------------------------------
(* loglike, statement by statement.  A stage takes the configuration c,    *)
(* the module-level state s and the call's locals f, and gives both back.  *)

\* Maximum eccentricity limit, in hundredths.
ecclim == 95

\* priors[kind+str(i)]['cvalue']
Get(cv, kind, i) == cv[PName(kind, i)]

\* A return of the terms summed so far, marked as the floor.
InfeasiblePartialSum(f, gate) ==
    [f EXCEPT !.pc = "done", !.ret = [floor |-> TRUE, terms |-> f.log_likelihood],
              !.gate = gate]

\* return -1e101; gate names the check that returned it.
Infeasible(f, gate) == [f EXCEPT !.pc = "done", !.ret = Floor, !.gate = gate]

\* The loop over priors.keys(): pcounter (here from 1) advances on the
\* non-fixed entries only.
RECURSIVE AssignFrom(_, _, _, _, _)
AssignFrom(priors, k, pcounter, cv, cube) ==
    IF k > Len(priors) THEN cv
    ELSE IF priors[k].type # "fixed"
         THEN AssignFrom(priors, k + 1, pcounter + 1,
                         [cv EXCEPT ![priors[k].name] = cube[pcounter]], cube)
         ELSE AssignFrom(priors, k + 1, pcounter, cv, cube)

\* An assignment loop that writes a free parameter only while it still
\* holds its placeholder, and keeps a value written by an earlier call.
RECURSIVE AssignOnceFrom(_, _, _, _, _)
AssignOnceFrom(priors, k, pcounter, cv, cube) ==
    IF k > Len(priors) THEN cv
    ELSE IF priors[k].type # "fixed"
         THEN AssignOnceFrom(priors, k + 1, pcounter + 1,
                             IF cv[priors[k].name] = 0
                             THEN [cv EXCEPT ![priors[k].name] = cube[pcounter]]
                             ELSE cv, cube)
         ELSE AssignOnceFrom(priors, k + 1, pcounter, cv, cube)

AssignCubeOnce(c, cv, cube) == AssignOnceFrom(c.priors, 1, 1, cv, cube)

\* An assignment loop whose pcounter advances on fixed entries as well.
RECURSIVE AssignCountingFixed(_, _, _, _)
AssignCountingFixed(priors, k, cv, cube) ==
    IF k > Len(priors) THEN cv
    ELSE IF priors[k].type # "fixed"
         THEN AssignCountingFixed(priors, k + 1,
                                  [cv EXCEPT ![priors[k].name] =
                                      cube[((k - 1) % Len(cube)) + 1]], cube)
         ELSE AssignCountingFixed(priors, k + 1, cv, cube)

AssignCubeByKeyIndex(c, cv, cube) == AssignCountingFixed(c.priors, 1, cv, cube)

AssignCube(c, cv, cube) == AssignFrom(c.priors, 1, 1, cv, cube)

StageAssign(c, s, f) ==
    [s |-> [s EXCEPT !.cvalue = AssignCube(c, s.cvalue, f.cube)],
     f |-> [f EXCEPT !.pc = "lc_periods"]]

\* A period may follow an equal one.
PeriodFollowsOrEquals(cP, Pn) == cP <= Pn

\* if cP < priors['P_p'+str(i)]['cvalue']: the period may follow cP.
PeriodFollows(cP, Pn) == cP < Pn

\* A period of 0 is rejected as well.
PeriodRejectedAtZero(cP) == cP <= 0

\* if cP < 0.: the period is rejected by its sign.
PeriodRejected(cP) == cP < 0

\* The period loop over a numbering: TRUE when it ends without a return.
RECURSIVE PeriodsPass(_, _, _, _)
PeriodsPass(cv, numbering, n, cP) ==
    IF n > Len(numbering) THEN TRUE
    ELSE LET Pn == Get(cv, "P_p", numbering[n])
         IN  /\ n > 1 => PeriodFollows(cP, Pn)
             /\ ~PeriodRejected(Pn)
             /\ PeriodsPass(cv, numbering, n + 1, Pn)

StageLcPeriods(c, s, f) ==
    [s |-> s,
     f |-> IF c.lcfilename /\ ~PeriodsPass(s.cvalue, c.numbering_transit, 1, 0)
           THEN Infeasible(f, "lc_periods")
           ELSE [f EXCEPT !.pc = "lc_models"]]

\* np.sin(omega * np.pi/180.) of a resolved omega, as a rational.
SinOmega(w) ==
    IF w.fn = "atan2"
    THEN IF w.x = 0 /\ w.y = 0 THEN RInt(0)
         ELSE Rat(w.y, Sqrt(w.x * w.x + w.y * w.y))
    ELSE CASE w.y % 360 = 90 -> RInt(1)
           [] w.y % 360 = 270 -> RInt(-1)
           [] w.y % 180 = 0 -> RInt(0)

\* (ecc, omega) of planet i by its parametrization.  omega is an angle in
\* degrees (fn "deg") or np.arctan2(y, x) (fn "atan2"); which unit the
\* context converts it to is part of the record the oracle receives.
ResolveEcc(c, cv, i) ==
    CASE ecc_parametrization(c, i) = 0 ->
           [ecc |-> Hund(Get(cv, "ecc_p", i)),
            omega |-> [fn |-> "deg", y |-> Get(cv, "omega_p", i), x |-> 0]]
      [] ecc_parametrization(c, i) = 1 ->
           LET ec == Get(cv, "ecosomega_p", i)
               es == Get(cv, "esinomega_p", i)
           IN  [ecc |-> Hund(Sqrt(ec * ec + es * es)),
                omega |-> [fn |-> "atan2", y |-> es, x |-> ec]]
      [] OTHER ->
           LET ec == Get(cv, "secosomega_p", i)
               es == Get(cv, "sesinomega_p", i)
           IN  [ecc |-> RAdd(RMul(Hund(ec), Hund(ec)), RMul(Hund(es), Hund(es))),
                omega |-> [fn |-> "atan2", y |-> es, x |-> ec]]

\* The limit itself is rejected as well.
TransitEccRejectedAtLimit(ecc) == RGe(ecc, Hund(95))

\* if ecc > ecclim: return -1e101
TransitEccRejected(ecc) == RGt(ecc, Hund(ecclim))

\* inc_inv_factor = (b/a)*ecc_factor
IncInvFactor(a, b, ecc, omega) ==
    LET ecc_factor == RDiv(RAdd(RInt(1), RMul(ecc, SinOmega(omega))),
                           RSub(RInt(1), RMul(ecc, ecc)))
    IN  RMul(RDiv(b, a), ecc_factor)

\* A grazing b = 1 + p is rejected as well.
GeometryRejectedAtGrazing(b, p, inc_inv_factor) ==
    RGe(b, RAdd(RInt(1), p)) \/ RGe(inc_inv_factor, RInt(1))

\* b > 1.+p or inc_inv_factor >= 1.
GeometryRejected(b, p, inc_inv_factor) ==
    RGt(b, RAdd(RInt(1), p)) \/ RGe(inc_inv_factor, RInt(1))

\* One argument record of an oracle call, kept in the call's log.
OracleCall(oracle, k, i, b, p, inc_inv, ecc) ==
    [oracle |-> oracle, inst |-> k, planet |-> i, b |-> b, p |-> p,
     inc_inv |-> inc_inv, ecc |-> ecc]

\* The body of the per-instrument, per-planet loop for instrument k and
\* planet i (direct (b, p) sampling, a sampled rather than rho).
TransitPlanet(c, s, f, k, i) ==
    LET cv == s.cvalue
        s1 == [s EXCEPT !.params[k].u =
                  [fn |-> "reverse_ld_coeffs", q1 |-> Get(cv, "q1", c.inames_lc[k]),
                   q2 |-> Get(cv, "q2", c.inames_lc[k])]]
        a  == Hund(Get(cv, "a_p", i))
        b  == Hund(Get(cv, "b_p", i))
        p  == Hund(Get(cv, "p_p", i))
        t0 == Get(cv, "t0_p", i)
        P  == Get(cv, "P_p", i)
        r  == ResolveEcc(c, cv, i)
        f1 == [f EXCEPT !.a = a, !.P = P]
    IN  IF TransitEccRejected(r.ecc) THEN [s |-> s1, f |-> Infeasible(f1, "lc_ecc")]
        ELSE LET inc_inv_factor == IncInvFactor(a, b, r.ecc, r.omega)
             IN  IF GeometryRejected(b, p, inc_inv_factor)
                 THEN [s |-> s1, f |-> Infeasible(f1, "lc_geometry")]
                 ELSE LET pr == [s1.params[k] EXCEPT
                                    !.t0 = t0, !.per = P, !.rp = p, !.a = a,
                                    !.inc = [fn |-> "arccos", arg |-> inc_inv_factor],
                                    !.ecc = r.ecc, !.w = r.omega]
                      IN  [s |-> [s1 EXCEPT !.params[k] = pr],
                           f |-> [f1 EXCEPT
                                    !.lcmodel[k] = Append(@, pr),
                                    !.calls = Append(@, OracleCall("batman", k, i, b, p,
                                                                   inc_inv_factor, r.ecc))]]

\* for instrument in inames_lc: for n in range(n_transit): ...
RECURSIVE TransitLoop(_, _, _, _, _)
TransitLoop(c, s, f, k, n) ==
    IF k > Len(c.inames_lc) THEN [s |-> s, f |-> f]
    ELSE IF n > Len(c.numbering_transit) THEN TransitLoop(c, s, f, k + 1, 1)
    ELSE LET r == TransitPlanet(c, s, f, k, c.numbering_transit[n])
         IN  IF r.f.pc = "done" THEN r ELSE TransitLoop(c, r.s, r.f, k, n + 1)

StageLcModels(c, s, f) ==
    IF ~c.lcfilename THEN [s |-> s, f |-> [f EXCEPT !.pc = "lc_like"]]
    ELSE LET f0 == [f EXCEPT !.lcmodel = [k \in 1..Len(c.inames_lc) |-> <<>>]]
             r  == TransitLoop(c, s, f0, 1, 1)
         IN  IF r.f.pc = "done" THEN r
             ELSE [s |-> r.s, f |-> [r.f EXCEPT !.pc = "lc_like"]]

\* One summand of log_likelihood: the oracle that gives it and what the
\* oracle is given.
Term(kind, k, curves, gpv, kep, trend, a, v) ==
    [kind |-> kind, inst |-> k, curves |-> curves, gpv |-> gpv, kep |-> kep,
     trend |-> trend, a |-> a, v |-> v, resid |-> <<>>, err |-> <<>>]

\* np.log of a fraction.
Log(x) == [fn |-> "log", arg |-> x]

\* A CeleriteQP vector with log(Prot) before log(L).
CeleriteVectorSwapped(c, cv, k) ==
    LET inst == c.inames_lc[k]
    IN  << Log(RInt(Get(cv, "GP_B", GPGroup(c, "GP_B", inst)))),
           Log(RInt(Get(cv, "GP_Prot", GPGroup(c, "GP_Prot", inst)))),
           Log(RInt(Get(cv, "GP_L", GPGroup(c, "GP_L", inst)))),
           Log(RInt(Get(cv, "GP_C", GPGroup(c, "GP_C", inst)))),
           Log(Rat(Get(cv, "sigma_w", inst), 1000000)) >>

\* The CeleriteQP vector of photometric instrument k, written in place:
\* logB, logL, logProt, logC, logJitter, the jitter being sigma_w*1e-6.
CeleriteVector(c, cv, k) ==
    LET inst == c.inames_lc[k]
    IN  << Log(RInt(Get(cv, "GP_B", GPGroup(c, "GP_B", inst)))),
           Log(RInt(Get(cv, "GP_L", GPGroup(c, "GP_L", inst)))),
           Log(RInt(Get(cv, "GP_Prot", GPGroup(c, "GP_Prot", inst)))),
           Log(RInt(Get(cv, "GP_C", GPGroup(c, "GP_C", inst)))),
           Log(Rat(Get(cv, "sigma_w", inst), 1000000)) >>

\* The photometric likelihood of instrument k, added to log_likelihood.
LcInstrument(c, s, f, k) ==
    LET cv   == s.cvalue
        inst == c.inames_lc[k]
        v    == << Get(cv, "mdilution", inst), Get(cv, "mflux", inst) >>
    IN  IF inst \notin c.GPDetrend
        THEN [s |-> s,
              f |-> [f EXCEPT !.log_likelihood =
                        Append(@, Term("gaussian", inst, f.lcmodel[k], <<>>, <<>>, <<>>,
                                       RInt(0), v \o <<Get(cv, "sigma_w", inst)>>))]]
        ELSE LET s1 == [s EXCEPT !.GPVector[k] = CeleriteVector(c, cv, k)]
             IN  [s |-> s1,
                  f |-> [f EXCEPT !.log_likelihood =
                            Append(@, Term("gp", inst, f.lcmodel[k], s1.GPVector[k],
                                           <<>>, <<>>, RInt(0), v))]]

RECURSIVE LcLikeLoop(_, _, _, _)
LcLikeLoop(c, s, f, k) ==
    IF k > Len(c.inames_lc) THEN [s |-> s, f |-> f]
    ELSE LET r == LcInstrument(c, s, f, k) IN LcLikeLoop(c, r.s, r.f, k + 1)

StageLcLike(c, s, f) ==
    LET r == LcLikeLoop(c, s, [f EXCEPT !.log_likelihood = <<>>], 1)
    IN  [s |-> r.s, f |-> [r.f EXCEPT !.pc = "density"]]

\* P and a are locals of loglike that only the body of the planet loop of
\* the photometric block binds.
TransitLocalsBound(c) ==
    c.lcfilename /\ Len(c.inames_lc) > 0 /\ Len(c.numbering_transit) > 0

\* loglike left by an exception instead of a return.
Raised(f, exception) ==
    [f EXCEPT !.pc = "done", !.gate = exception,
              !.ret = [floor |-> FALSE,
                       terms |-> <<Term(exception, 0, <<>>, <<>>, <<>>, <<>>, RInt(0), <<>>)>>]]

\* A stellar-density term from the P and a of the first transiting planet.
StageDensityFirstPlanet(c, s, f) ==
    [s |-> s,
     f |-> IF c.stellar_density /\ ~fitrho(c)
           THEN IF TransitLocalsBound(c)
                THEN [f EXCEPT !.pc = "rv_periods",
                               !.log_likelihood =
                                   Append(@, Term("density", 0, <<>>, <<>>, <<>>, <<>>,
                                                  Hund(Get(s.cvalue, "a_p", c.numbering_transit[1])),
                                                  <<Get(s.cvalue, "P_p", c.numbering_transit[1])>>))]
                ELSE Raised(f, "UnboundLocalError")
           ELSE [f EXCEPT !.pc = "rv_periods"]]

\* The stellar-density term, from the P and a left by the planet loop.
StageDensity(c, s, f) ==
    [s |-> s,
     f |-> IF c.stellar_density /\ ~fitrho(c)
           THEN IF TransitLocalsBound(c)
                THEN [f EXCEPT !.pc = "rv_periods",
                               !.log_likelihood =
                                   Append(@, Term("density", 0, <<>>, <<>>, <<>>, <<>>,
                                                  f.a, <<f.P>>))]
                ELSE Raised(f, "UnboundLocalError")
           ELSE [f EXCEPT !.pc = "rv_periods"]]

StageRvPeriods(c, s, f) ==
    [s |-> s,
     f |-> IF c.rvfilename /\ ~PeriodsPass(s.cvalue, c.numbering_rv, 1, 0)
           THEN Infeasible(f, "rv_periods")
           ELSE [f EXCEPT !.pc = "rv_model"]]

\* if ecc > 1.: return -1e101
RvEccRejected(ecc) == RGt(ecc, RInt(1))

\* The body of the RV planet loop for the n-th RV planet.
RvPlanet(c, s, f, n) ==
    LET cv == s.cvalue
        i  == c.numbering_rv[n]
        r  == ResolveEcc(c, cv, i)
    IN  IF RvEccRejected(r.ecc) THEN [s |-> s, f |-> Infeasible(f, "rv_ecc")]
        ELSE [s |-> [s EXCEPT !.radvel_params[n] =
                        [per |-> Get(cv, "P_p", i), tc |-> Get(cv, "t0_p", i),
                         w |-> r.omega, e |-> r.ecc, k |-> Get(cv, "K_p", i)]],
              f |-> f]

RECURSIVE RvLoop(_, _, _, _)
RvLoop(c, s, f, n) ==
    IF n > Len(c.numbering_rv) THEN [s |-> s, f |-> f]
    ELSE LET r == RvPlanet(c, s, f, n)
         IN  IF r.f.pc = "done" THEN r ELSE RvLoop(c, r.s, r.f, n + 1)

\* The radvel calls of RVModel(radvel_params): one record per planet.
RECURSIVE RadvelCalls(_, _, _)
RadvelCalls(c, rp, n) ==
    IF n > Len(c.numbering_rv) THEN <<>>
    ELSE <<OracleCall("radvel", 0, c.numbering_rv[n], RInt(0), RInt(0), RInt(0), rp[n].e)>>
         \o RadvelCalls(c, rp, n + 1)

StageRvModel(c, s, f) ==
    IF ~c.rvfilename THEN [s |-> s, f |-> [f EXCEPT !.pc = "rv_trend"]]
    ELSE LET r == RvLoop(c, s, f, 1)
         IN  IF r.f.pc = "done" THEN r
             ELSE [s |-> r.s,
                   f |-> [r.f EXCEPT !.pc = "rv_trend",
                                     !.rvmodel = [n \in 1..Len(c.numbering_rv) |->
                                                     r.s.radvel_params[n]],
                                     !.calls = @ \o RadvelCalls(c, r.s.radvel_params, 1)]]

\* A trend whose quadratic form takes the intercept of the line.
StageRvTrendLineIntercept(c, s, f) ==
    LET cv == s.cvalue
        f1 == IF fitrvline(c)
              THEN LET aline == Get(cv, "rv_slope", 0)
                       bline == -Get(cv, "rv_tzero", 0) * aline
                   IN  [f EXCEPT !.trend = <<aline, bline>>]
              ELSE [f EXCEPT !.trend = <<>>]
        f2 == IF fitrvquad(c)
              THEN LET qquad == Get(cv, "rv_quad", 0)
                       aline == Get(cv, "rv_slope", 0)
                       bline == -Get(cv, "rv_tzero", 0) * aline
                   IN  [f1 EXCEPT !.trend = @ \o <<qquad, aline, bline>>]
              ELSE f1
    IN  [s |-> s, f |-> [f2 EXCEPT !.pc = "rv_like"]]

\* The trends added to rvmodel, each `rvmodel +=` appending its
\* coefficients: two for a line, three for a quadratic.
StageRvTrend(c, s, f) ==
    LET cv == s.cvalue
        f1 == IF fitrvline(c)
              THEN LET aline == Get(cv, "rv_slope", 0)
                       bline == -Get(cv, "rv_tzero", 0) * aline
                   IN  [f EXCEPT !.trend = <<aline, bline>>]
              ELSE [f EXCEPT !.trend = <<>>]
        f2 == IF fitrvquad(c)
              THEN LET qquad == Get(cv, "rv_quad", 0)
                       aline == Get(cv, "rv_slope", 0)
                       bline == -Get(cv, "rv_tzero", 0) * aline
                                - (Get(cv, "rv_tzero", 0) * Get(cv, "rv_tzero", 0)) * qquad
                   IN  [f1 EXCEPT !.trend = @ \o <<qquad, aline, bline>>]
              ELSE f1
    IN  [s |-> s, f |-> [f2 EXCEPT !.pc = "rv_like"]]

\* np.sqrt(rverr_rv[...]**2 + jitter**2) over the data of an instrument.
Quadrature(inst, jitter) == [fn |-> "sqrt", rverr_rv |-> inst, jitter |-> jitter]

\* A loop that adds the white-noise term of the instrument in both cases.
RvInstrumentAlsoWhite(c, s, f, k) ==
    LET cv    == s.cvalue
        inst  == c.inames_rv[k]
        resid == [kep |-> f.rvmodel, trend |-> f.trend, mu |-> Get(cv, "mu", inst)]
        white == [f EXCEPT !.log_likelihood =
                     Append(@, Term("gaussian_rv", inst, <<>>, <<>>, f.rvmodel, f.trend,
                                    RInt(0),
                                    <<Get(cv, "mu", inst), Get(cv, "sigma_w_rv", inst)>>))]
    IN  IF ~c.rveparamfile
        THEN [s |-> s, f |-> white]
        ELSE [s |-> [s EXCEPT !.rvresiduals[k] = <<resid>>,
                              !.rvresiduals_err[k] =
                                  <<Quadrature(inst, Get(cv, "sigma_w_rv", inst))>>],
              f |-> white]

\* The loop over the RV instruments: a white-noise term each, or the
\* pooled residuals and errors when an RV GP is fitted.
RvInstrument(c, s, f, k) ==
    LET cv    == s.cvalue
        inst  == c.inames_rv[k]
        resid == [kep |-> f.rvmodel, trend |-> f.trend, mu |-> Get(cv, "mu", inst)]
    IN  IF ~c.rveparamfile
        THEN [s |-> s,
              f |-> [f EXCEPT !.log_likelihood =
                        Append(@, Term("gaussian_rv", inst, <<>>, <<>>, f.rvmodel, f.trend,
                                       RInt(0),
                                       <<Get(cv, "mu", inst), Get(cv, "sigma_w_rv", inst)>>))]]
        ELSE [s |-> [s EXCEPT !.rvresiduals[k] = <<resid>>,
                              !.rvresiduals_err[k] =
                                  <<Quadrature(inst, Get(cv, "sigma_w_rv", inst))>>],
              f |-> f]

RECURSIVE RvLikeLoop(_, _, _, _)
RvLikeLoop(c, s, f, k) ==
    IF k > Len(c.inames_rv) THEN [s |-> s, f |-> f]
    ELSE LET r == RvInstrument(c, s, f, k) IN RvLikeLoop(c, r.s, r.f, k + 1)

\* The four entries the RV CeleriteQP block writes into its vector.
RvCeleriteVector(c, cv, old) ==
    [old EXCEPT ![1] = Log(RInt(Get(cv, "GP_B", GPGroup(c, "GP_B", 0)))),
                ![2] = Log(RInt(Get(cv, "GP_L", GPGroup(c, "GP_L", 0)))),
                ![3] = Log(RInt(Get(cv, "GP_Prot", GPGroup(c, "GP_Prot", 0)))),
                ![4] = Log(RInt(Get(cv, "GP_C", GPGroup(c, "GP_C", 0))))]

\* The pooled RV GP term; its residuals and errors are the module-level
\* arrays as they stand.
RvGP(c, s, f) ==
    LET s1 == [s EXCEPT !.GPVector[0] = RvCeleriteVector(c, s.cvalue, @)]
    IN  [s |-> s1,
         f |-> [f EXCEPT !.log_likelihood =
                   Append(@, [Term("gp_rv", 0, <<>>, s1.GPVector[0], <<>>, <<>>, RInt(0), <<>>)
                              EXCEPT !.resid = s1.rvresiduals, !.err = s1.rvresiduals_err])]]

\* ... and return log_likelihood.
StageRvLike(c, s, f) ==
    LET r  == RvLikeLoop(c, s, f, 1)
        r2 == IF c.rveparamfile THEN RvGP(c, r.s, r.f) ELSE r
    IN  [s |-> r2.s,
         f |-> [r2.f EXCEPT !.pc = "done",
                            !.ret = [floor |-> FALSE, terms |-> r2.f.log_likelihood]]]

\* One stage of loglike, by the position of the call.
Stage(c, s, f) ==
    CASE f.pc = "assign"     -> StageAssign(c, s, f)
      [] f.pc = "lc_periods" -> StageLcPeriods(c, s, f)
      [] f.pc = "lc_models"  -> StageLcModels(c, s, f)
      [] f.pc = "lc_like"    -> StageLcLike(c, s, f)
      [] f.pc = "density"    -> StageDensity(c, s, f)
      [] f.pc = "rv_periods" -> StageRvPeriods(c, s, f)
      [] f.pc = "rv_model"   -> StageRvModel(c, s, f)
      [] f.pc = "rv_trend"   -> StageRvTrend(c, s, f)
      [] f.pc = "rv_like"    -> StageRvLike(c, s, f)

\* loglike(cube) entered: its locals before the first statement.
EnterLoglike(cube) == [IdleFrame EXCEPT !.pc = "assign", !.cube = cube]

\* loglike run from its first statement to its return with nothing else
\* running: the module-level state and the locals at the return.
RECURSIVE RunToReturn(_, _, _)
RunToReturn(c, s, f) ==
    IF f.pc = "done" THEN [s |-> s, f |-> f]
    ELSE LET r == Stage(c, s, f) IN RunToReturn(c, r.s, r.f)

\* The value loglike(cube) returns as the very first evaluation after setup.
FirstEvaluation(c, cube) == RunToReturn(c, SetupStore(c), EnterLoglike(cube)).f.ret

-----------------------------------------------------------------------------
(* The state machine: the sampler calls loglike; a call advances stage by  *)
(* stage over the module-level state.  With one evaluation slot the calls  *)
(* are sequential; with two slots over the same module-level state the     *)
(* stages of two calls interleave.                                         *)

Store ==
    [cvalue |-> cvalue, params |-> params, radvel_params |-> radvel_params,
     GPVector |-> GPVector, rvresiduals |-> rvresiduals,
     rvresiduals_err |-> rvresiduals_err]

SetStore(s) ==
    /\ cvalue' = s.cvalue
    /\ params' = s.params
    /\ radvel_params' = s.radvel_params
    /\ GPVector' = s.GPVector
    /\ rvresiduals' = s.rvresiduals
    /\ rvresiduals_err' = s.rvresiduals_err

\* No `out` dictionary yet.
NoOut == [lnZ |-> 0, unnamed |-> <<>>, named |-> <<>>]

\* The sampler options of the command line: --use_dynesty, --dynamic,
\* -dynesty_nthreads; pc is the position of the script, n counts the runs.
Options(use_dynesty, dynamic, dynesty_nthreads) ==
    [use_dynesty |-> use_dynesty, dynamic |-> dynamic,
     dynesty_nthreads |-> dynesty_nthreads, pc |-> "loglike", n |-> 0]

\* No (r1, r2) draw.
NoBp == [pl |-> RInt(0), pu |-> RInt(1), r1 |-> RInt(0), r2 |-> RInt(0),
         b |-> RInt(0), p |-> RInt(0), pc |-> "none"]

\* The script state while only loglike is explored.
\* No statement is being run on its own.
NoProbe == [pc |-> "none"]

ScriptIdle(opts) ==
    /\ transformed_priors = <<>>
    /\ held = <<>>
    /\ out = NoOut
    /\ disk = {}
    /\ run = opts
    /\ bp = NoBp
    /\ probe = NoProbe

\* The module-level state and the evaluation slots after setup.
StoreInit(c, slots) ==
    /\ cfg = c
    /\ cvalue = SetupStore(c).cvalue
    /\ params = SetupStore(c).params
    /\ radvel_params = SetupStore(c).radvel_params
    /\ GPVector = SetupStore(c).GPVector
    /\ rvresiduals = SetupStore(c).rvresiduals
    /\ rvresiduals_err = SetupStore(c).rvresiduals_err
    /\ frame = [w \in 1..slots |-> IdleFrame]
    /\ nevals = 0

InitWith(c, slots) ==
    /\ ScriptIdle(Options(FALSE, FALSE, "none"))
    /\ StoreInit(c, slots)

Init == \E c \in Runs : InitWith(c, 1)

\* The sampler calls loglike(cube) in slot w.
Call(w, cube) ==
    /\ frame[w].pc = "idle"
    /\ nevals < MaxEvals
    /\ frame' = [frame EXCEPT ![w] = EnterLoglike(cube)]
    /\ nevals' = nevals + 1
    /\ UNCHANGED <<cfg, cvalue, params, radvel_params, GPVector, rvresiduals,
                   rvresiduals_err>>
    /\ UNCHANGED script_vars

\* The call in slot w, at position pc, executes a stage with outcome r.
Advance(w, pc, r) ==
    /\ frame[w].pc = pc
    /\ SetStore(r.s)
    /\ frame' = [frame EXCEPT ![w] = r.f]
    /\ UNCHANGED <<cfg, nevals>>
    /\ UNCHANGED script_vars

Assign(w) == Advance(w, "assign", StageAssign(cfg, Store, frame[w]))

LcPeriods(w) == Advance(w, "lc_periods", StageLcPeriods(cfg, Store, frame[w]))

LcModels(w) == Advance(w, "lc_models", StageLcModels(cfg, Store, frame[w]))

LcLike(w) == Advance(w, "lc_like", StageLcLike(cfg, Store, frame[w]))

Density(w) == Advance(w, "density", StageDensity(cfg, Store, frame[w]))

RvPeriods(w) == Advance(w, "rv_periods", StageRvPeriods(cfg, Store, frame[w]))

RvModel(w) == Advance(w, "rv_model", StageRvModel(cfg, Store, frame[w]))

RvTrend(w) == Advance(w, "rv_trend", StageRvTrend(cfg, Store, frame[w]))

RvLike(w) == Advance(w, "rv_like", StageRvLike(cfg, Store, frame[w]))

\* The sampler takes the returned value; the slot is free again.  The
\* slot keeps the vector and the value of its last call.
Return(w) ==
    /\ frame[w].pc = "done"
    /\ frame' = [frame EXCEPT ![w].pc = "idle"]
    /\ UNCHANGED <<cfg, cvalue, params, radvel_params, GPVector, rvresiduals,
                   rvresiduals_err, nevals>>
    /\ UNCHANGED script_vars

Slots == DOMAIN frame

Next ==
    \/ \E w \in Slots, cube \in Cubes(cfg) : Call(w, cube)
    \/ \E w \in Slots : Assign(w)
    \/ \E w \in Slots : LcPeriods(w)
    \/ \E w \in Slots : LcModels(w)
    \/ \E w \in Slots : LcLike(w)
    \/ \E w \in Slots : Density(w)
    \/ \E w \in Slots : RvPeriods(w)
    \/ \E w \in Slots : RvModel(w)
    \/ \E w \in Slots : RvTrend(w)
    \/ \E w \in Slots : RvLike(w)
    \/ \E w \in Slots : Return(w)

Spec == Init /\ [][Next]_vars

\* Two evaluation slots over one module-level state.
InitShared == InitWith(RunPool, 2)

SpecShared == InitShared /\ [][Next]_vars

-----------------------------------------------------------------------------
(* Properties.                                                             *)

\* The calls that have returned and whose value the sampler has not taken.
Returned == {w \in DOMAIN frame : frame[w].pc = "done"}

\* The position in the vector of the k-th entry of the priors, when free.
FreePosition(c, k) == Cardinality({j \in 1..k : c.priors[j].type # "fixed"})

\* The periods of a numbering, in its order.
PeriodsOf(cv, numbering) == [n \in 1..Len(numbering) |-> Get(cv, "P_p", numbering[n])]

StrictlyIncreasing(q) == \A n \in 2..Len(q) : q[n - 1] < q[n]

\* C1: in a sequence of sequential loglike calls, every call, whatever the
\* calls before it did and wherever they returned, returns the value that
\* loglike returns for the same vector as the first evaluation after setup.
C1_LoglikeIsPure ==
    \A w \in Returned : frame[w].ret = FirstEvaluation(cfg, frame[w].cube)

\* C1 witness: a later call has returned the floor value while the batman
\* parameters still hold what an earlier call with another vector wrote.
C1_Witness ==
    /\ cfg.id = "periods"
    /\ nevals >= 2
    /\ frame[1].pc = "done"
    /\ frame[1].ret.floor
    /\ params[1] # init_batman
    /\ params[1].per # Get(cvalue, "P_p", 3)

C3_CurrentValuesReplaced ==
    \A w \in DOMAIN frame :
        frame[w].pc \notin {"idle", "assign"} =>
            \A k \in 1..Len(cfg.priors) :
                IF cfg.priors[k].type # "fixed"
                THEN cvalue[cfg.priors[k].name] = frame[w].cube[FreePosition(cfg, k)]
                ELSE cvalue[cfg.priors[k].name] \in cfg.priors[k].value

\* C3 witness: the first loop of a later call has just run, and the batman
\* parameters show that an earlier call held another period for planet 3.
C3_Witness ==
    /\ cfg.id = "periods"
    /\ nevals >= 2
    /\ frame[1].pc = "lc_periods"
    /\ params[1] # init_batman
    /\ params[1].per # Get(cvalue, "P_p", 3)

\* C4: a call that returns a value other than the floor has its periods
\* strictly increasing in the transit numbering (photometry fitted) and in
\* the RV numbering (RVs fitted); periods (3,5,10) are not rejected and
\* (5,3,10) returns the floor.
C4_PeriodsStrictlyIncreasing ==
    \A w \in Returned :
        LET lc == PeriodsOf(cvalue, cfg.numbering_transit)
            rv == PeriodsOf(cvalue, cfg.numbering_rv)
        IN  /\ ~frame[w].ret.floor =>
                /\ cfg.lcfilename => StrictlyIncreasing(lc)
                /\ cfg.rvfilename => StrictlyIncreasing(rv)
            /\ (cfg.id = "periods" /\ lc = <<3, 5, 10>>) => frame[w].gate = "none"
            /\ (cfg.id = "periods" /\ lc = <<5, 3, 10>>) => frame[w].ret = Floor

\* C4 witness: the call with periods (3,5,10) has returned a likelihood.
C4_Witness ==
    /\ cfg.id = "periods"
    /\ frame[1].pc = "done"
    /\ PeriodsOf(cvalue, cfg.numbering_transit) = <<3, 5, 10>>
    /\ ~frame[1].ret.floor
    /\ Len(frame[1].calls) = 3

\* The resolved eccentricity of planet i for the current values.
EccOf(i) == ResolveEcc(cfg, cvalue, i).ecc

TransitPlanets == {cfg.numbering_transit[n] : n \in 1..Len(cfg.numbering_transit)}

RvPlanets == {cfg.numbering_rv[n] : n \in 1..Len(cfg.numbering_rv)}

BatmanCallsOf(w) == {j \in 1..Len(frame[w].calls) : frame[w].calls[j].oracle = "batman"}

RadvelCallsOf(w) == {j \in 1..Len(frame[w].calls) : frame[w].calls[j].oracle = "radvel"}

\* The period gate as the original C5 states it: every period positive and
\* not smaller than its predecessor.
NonDecreasingPositive(q) ==
    \A n \in 1..Len(q) : q[n] > 0 /\ (n > 1 => q[n] >= q[n - 1])

\* The period gate as amended: the first period not negative, every later
\* one strictly greater than its predecessor.
IncreasingFromNonNegative(q) ==
    (Len(q) > 0 => q[1] >= 0) /\ StrictlyIncreasing(q)

C6_NonPositivePeriodRejected ==
    \A w \in Returned :
        LET lc == PeriodsOf(cvalue, cfg.numbering_transit)
            rv == PeriodsOf(cvalue, cfg.numbering_rv)
        IN  (\/ cfg.lcfilename /\ \E n \in 1..Len(lc) : lc[n] <= 0
             \/ cfg.rvfilename /\ \E n \in 1..Len(rv) : rv[n] <= 0)
            => (frame[w].ret = Floor /\ frame[w].calls = <<>>)

C8_RvEccBelowOne ==
    \A w \in Returned :
        cfg.rvfilename =>
            /\ \A j \in RadvelCallsOf(w) : RLt(frame[w].calls[j].ecc, RInt(1))
            /\ \A i \in RvPlanets :
                  RGe(EccOf(i), RInt(1)) => (frame[w].ret = Floor /\ RadvelCallsOf(w) = {})

\* The inverse-inclination factor of transiting planet i as C9 gives it:
\* (b/a) * (1 + e sin(omega)) / (1 - e^2), from the current values.
InvInclinationOf(i) ==
    LET e == EccOf(i)
        b == Hund(Get(cvalue, "b_p", i))
        a == Hund(Get(cvalue, "a_p", i))
        sinw == SinOmega(ResolveEcc(cfg, cvalue, i).omega)
    IN  RDiv(RMul(RDiv(b, a), RAdd(RInt(1), RMul(e, sinw))),
             RSub(RInt(1), RMul(e, e)))

\* The geometric condition of C9 for transiting planet i.
Unphysical(i) ==
    \/ RGt(Hund(Get(cvalue, "b_p", i)), RAdd(RInt(1), Hund(Get(cvalue, "p_p", i))))
    \/ RGe(InvInclinationOf(i), RInt(1))

\* C9: a transiting planet with b > 1 + p or inc_inv >= 1 makes loglike
\* return the floor; b = 1 + p is accepted and inc_inv = 1 is rejected; a
\* transit model is evaluated only with b <= 1 + p and inc_inv < 1, and its
\* inclination is arccos(inc_inv).
C9_GeometricGate ==
    \A w \in Returned :
        cfg.lcfilename =>
            /\ (\A i \in TransitPlanets : ~RGt(EccOf(i), Hund(95)))
                  => ((\E i \in TransitPlanets : Unphysical(i)) => frame[w].ret = Floor)
            /\ frame[w].gate = "lc_geometry" => \E i \in TransitPlanets : Unphysical(i)
            /\ \A j \in BatmanCallsOf(w) :
                  LET call == frame[w].calls[j]
                  IN  /\ ~RGt(call.b, RAdd(RInt(1), call.p))
                      /\ RLt(call.inc_inv, RInt(1))
                      /\ call.inc_inv = InvInclinationOf(call.planet)
            /\ \A k \in DOMAIN frame[w].lcmodel :
                  \A n \in 1..Len(frame[w].lcmodel[k]) :
                      frame[w].lcmodel[k][n].inc =
                          [fn |-> "arccos",
                           arg |-> InvInclinationOf(cfg.numbering_transit[n])]

\* C9 witness: a grazing planet with b = 1.1 = 1 + p exactly (a = 3) was
\* accepted and its transit model evaluated for both instruments.
C9_Witness ==
    /\ cfg.id = "geom"
    /\ frame[1].pc = "done"
    /\ ~frame[1].ret.floor
    /\ Get(cvalue, "b_p", 1) = 110
    /\ Get(cvalue, "p_p", 1) = 10
    /\ Len(frame[1].calls) = 2
    /\ frame[1].calls[1].b = RAdd(RInt(1), frame[1].calls[1].p)

\* Some feasibility check of loglike fails for the current values.
SampleInfeasible ==
    \/ cfg.lcfilename /\ ~PeriodsPass(cvalue, cfg.numbering_transit, 1, 0)
    \/ cfg.lcfilename /\ \E i \in TransitPlanets :
          \/ TransitEccRejected(EccOf(i))
          \/ GeometryRejected(Hund(Get(cvalue, "b_p", i)), Hund(Get(cvalue, "p_p", i)),
                              InvInclinationOf(i))
    \/ cfg.rvfilename /\ ~PeriodsPass(cvalue, cfg.numbering_rv, 1, 0)
    \/ cfg.rvfilename /\ \E i \in RvPlanets : RvEccRejected(EccOf(i))

\* The checks of loglike that return the floor.
FeasibilityGates == {"lc_periods", "lc_ecc", "lc_geometry", "rv_periods", "rv_ecc"}

ContributionsOf(c) ==
    [k \in 1..Len(c.inames_lc) |->
        <<IF c.inames_lc[k] \in c.GPDetrend THEN "gp" ELSE "gaussian", c.inames_lc[k]>>]
    \o (IF c.stellar_density /\ ~fitrho(c) THEN << <<"density", 0>> >> ELSE <<>>)
    \o (IF c.rveparamfile THEN << <<"gp_rv", 0>> >>
        ELSE [k \in 1..Len(c.inames_rv) |-> <<"gaussian_rv", c.inames_rv[k]>>])

\* C11: for a vector that passes every feasibility check, loglike returns
\* the sum of exactly one contribution per photometric instrument, the
\* density term iff a density constraint was given and rho is not sampled,
\* and the RV contributions.
C11_SumOfContributions ==
    \A w \in Returned :
        ~SampleInfeasible =>
            /\ ~frame[w].ret.floor
            /\ [n \in 1..Len(frame[w].ret.terms) |->
                   <<frame[w].ret.terms[n].kind, frame[w].ret.terms[n].inst>>]
               = ContributionsOf(cfg)

-----------------------------------------------------------------------------
(* The prior transform and the sampler's use of it.  The transforms of    *)
(* utils are not evaluated: a transformed value records the transform,    *)
(* its argument and the entry of the priors whose parameters it was given. *)

\* Number of prior() calls the sampler makes in one explored run.
MaxHeld == 2

\* One free entry of the priors file: its distribution and parameters.
Dist(kind, i, type, v1, v2) ==
    [name |-> PName(kind, i), type |-> type, value |-> <<v1, v2>>]

\* A value of the physical vector.
TVal(fn, val, pinfo, a, b) ==
    [fn |-> fn, val |-> val, of |-> pinfo.name, a |-> a, b |-> b]

\* np.zeros(n_params), entry by entry.
ZeroVal == [fn |-> "zero", val |-> 0, of |-> PName("", 0), a |-> 0, b |-> 0]

\* A transform of exactly one argument.
TransformOfVal(fn, val, pinfo) == TVal(fn, val, pinfo, 0, 0)

\* The implicit return of a function that falls off its last statement.
NoneVal(pinfo) == TVal("None", 0, pinfo, 0, 0)

\* transform_prior(val, pinfo): one `if` per type, no final else.
transform_prior(val, pinfo) ==
    CASE pinfo.type = "uniform" ->
           TVal("transform_uniform", val, pinfo, pinfo.value[1], pinfo.value[2])
      [] pinfo.type = "normal" ->
           TVal("transform_normal", val, pinfo, pinfo.value[1], pinfo.value[2])
      [] pinfo.type = "jeffreys" ->
           TVal("transform_loguniform", val, pinfo, pinfo.value[1], pinfo.value[2])
      [] pinfo.type = "beta" ->
           TVal("transform_beta", val, pinfo, pinfo.value[1], pinfo.value[2])
      [] pinfo.type = "exponential" -> TransformOfVal("transform_exponential", val, pinfo)
      [] OTHER -> NoneVal(pinfo)

\* A loop that reads the cube at the entry's index in priors, fixed
\* entries counted, and writes at pcounter.
RECURSIVE PriorLoopCountingFixed(_, _, _, _, _)
PriorLoopCountingFixed(priors, k, pcounter, buf, cube) ==
    IF k > Len(priors) THEN [buf |-> buf, raised |-> FALSE]
    ELSE IF priors[k].type # "fixed"
         THEN LET at == ((k - 1) % Len(cube)) + 1
                  x  == transform_prior(cube[at], priors[k])
              IN  IF x.fn = "None" THEN [buf |-> buf, raised |-> TRUE]
                  ELSE PriorLoopCountingFixed(priors, k + 1, pcounter + 1,
                                              [buf EXCEPT ![pcounter] = x], cube)
         ELSE PriorLoopCountingFixed(priors, k + 1, pcounter, buf, cube)

\* The loop of prior(): buf is transformed_priors under dynesty and the
\* cube itself otherwise; storing None in an array of doubles raises
\* TypeError and ends the loop.
RECURSIVE PriorLoop(_, _, _, _, _)
PriorLoop(priors, k, pcounter, buf, cube) ==
    IF k > Len(priors) THEN [buf |-> buf, raised |-> FALSE]
    ELSE IF priors[k].type # "fixed"
         THEN LET x == transform_prior(cube[pcounter], priors[k])
              IN  IF x.fn = "None" THEN [buf |-> buf, raised |-> TRUE]
                  ELSE PriorLoop(priors, k + 1, pcounter + 1,
                                 [buf EXCEPT ![pcounter] = x], cube)
         ELSE PriorLoop(priors, k + 1, pcounter, buf, cube)

\* prior(cube) over the array tp (transformed_priors): what it leaves in
\* tp, in the cube, and whether it returns tp itself.
prior(c, use_dynesty, tp, cube) ==
    IF use_dynesty
    THEN LET r == PriorLoop(c.priors, 1, 1, tp, cube)
         IN  [transformed_priors |-> r.buf, cube |-> cube, raised |-> r.raised,
              returns_transformed_priors |-> ~r.raised]
    ELSE LET r == PriorLoop(c.priors, 1, 1, cube, cube)
         IN  [transformed_priors |-> tp, cube |-> r.buf, raised |-> r.raised,
              returns_transformed_priors |-> FALSE]

\* Free parameters of the five supported kinds between fixed ones.
PriorsKinds ==
    << Par("mu", 1, {7}), Dist("P_p", 1, "uniform", 1, 10), Par("t0_p", 1, {3}),
       Dist("K_p", 1, "normal", 10, 2), Dist("sigma_w_rv", 1, "jeffreys", 1, 100),
       Par("omega_p", 1, {90}), Dist("ecc_p", 1, "beta", 1, 3),
       Dist("GP_C", 0, "exponential", 1, 1) >>

\* A free parameter whose kind transform_prior does not know.
PriorsUnsupported ==
    << Dist("P_p", 1, "uniform", 1, 10), Par("t0_p", 1, {3}),
       Dist("K_p", 1, "gamma", 2, 1), Dist("mu", 1, "normal", 0, 5) >>

RunKinds == Run("kinds", PriorsKinds, <<>>, <<>>, <<>>, <<>>, {}, FALSE, FALSE)

RunUnsupported ==
    Run("unsupported", PriorsUnsupported, <<>>, <<>>, <<>>, <<>>, {}, FALSE, FALSE)

\* The unit cubes the sampler draws, in hundredths: one with a different
\* value at every position, its mirror image, and the centre.
UnitCubes(c) ==
    { [k \in 1..n_params(c) |-> 10 * k],
      [k \in 1..n_params(c) |-> 100 - 10 * k],
      [k \in 1..n_params(c) |-> 50] }

\* The vector the sampler reads through what prior() gave it.
Deref(h) == IF h.alias THEN transformed_priors ELSE h.x

\* The sampler calls prior(u) and keeps what it is given: the array
\* transformed_priors itself under dynesty, its own cube otherwise.
PriorCall(u) ==
    /\ run.pc = "sampling"
    /\ Len(held) < MaxHeld
    /\ \A w \in Slots : frame[w].pc = "idle"
    /\ LET r == prior(cfg, run.use_dynesty, transformed_priors, u)
       IN  /\ transformed_priors' = r.transformed_priors
           /\ held' = Append(held,
                             [u |-> u,
                              x |-> IF run.use_dynesty THEN r.transformed_priors ELSE r.cube,
                              alias |-> r.returns_transformed_priors,
                              raised |-> r.raised])
           /\ run' = IF r.raised THEN [run EXCEPT !.pc = "TypeError"] ELSE run
    /\ UNCHANGED <<cfg, cvalue, params, radvel_params, GPVector, rvresiduals,
                   rvresiduals_err, frame, nevals, out, disk, bp, probe>>

\* The sampler calls loglike on a vector it holds.
CallHeld(w, i) ==
    /\ run.pc = "sampling"
    /\ frame[w].pc = "idle"
    /\ nevals < MaxEvals
    /\ i \in 1..Len(held)
    /\ ~held[i].raised
    /\ frame' = [frame EXCEPT ![w] = EnterLoglike(Deref(held[i]))]
    /\ nevals' = nevals + 1
    /\ UNCHANGED <<cfg, cvalue, params, radvel_params, GPVector, rvresiduals,
                   rvresiduals_err>>
    /\ UNCHANGED script_vars

\* np.median of a column of the samples: of names the parameter whose
\* transformed values the column holds.
Median(column) ==
    [fn |-> "median", val |-> 0, of |-> column[1].of, a |-> Len(column), b |-> 0]

\* "Extract parameters": column pcounter of the samples becomes the
\* samples of the pcounter-th non-fixed entry, its median the cvalue.
RECURSIVE ExtractLoop(_, _, _, _, _)
ExtractLoop(priors, k, pcounter, acc, posterior_samples) ==
    IF k > Len(priors) THEN acc
    ELSE IF priors[k].type # "fixed"
         THEN LET column == [j \in 1..Len(posterior_samples) |->
                                posterior_samples[j][pcounter]]
              IN  ExtractLoop(priors, k + 1, pcounter + 1,
                      [cvalue |-> [acc.cvalue EXCEPT ![priors[k].name] =
                                      Median(column)],
                       named |-> (priors[k].name :> column) @@ acc.named],
                      posterior_samples)
         ELSE ExtractLoop(priors, k + 1, pcounter, acc, posterior_samples)

\* The sampler has ended; its samples are the vectors prior() computed.
ExtractSamples ==
    /\ run.pc = "sampling"
    /\ Len(held) > 0
    /\ \A w \in Slots : frame[w].pc = "idle"
    /\ LET posterior_samples == [i \in 1..Len(held) |-> held[i].x]
           r == ExtractLoop(cfg.priors, 1, 1, [cvalue |-> cvalue, named |-> <<>>],
                            posterior_samples)
       IN  /\ cvalue' = r.cvalue
           /\ out' = [out EXCEPT !.unnamed = posterior_samples, !.named = r.named]
    /\ run' = [run EXCEPT !.pc = "extracted"]
    /\ UNCHANGED <<cfg, params, radvel_params, GPVector, rvresiduals,
                   rvresiduals_err, frame, nevals, transformed_priors, held, disk, bp, probe>>

InitPrior ==
    \E c \in {RunKinds, RunUnsupported}, use_dynesty \in BOOLEAN :
        /\ StoreInit(c, 1)
        /\ transformed_priors = [k \in 1..n_params(c) |-> ZeroVal]
        /\ held = <<>>
        /\ out = NoOut
        /\ disk = {}
        /\ run = [Options(use_dynesty, FALSE, "none") EXCEPT !.pc = "sampling"]
        /\ bp = NoBp
    /\ probe = NoProbe

NextPrior ==
    \/ \E u \in UnitCubes(cfg) : PriorCall(u)
    \/ \E w \in Slots, i \in 1..Len(held) : CallHeld(w, i)
    \/ \E w \in Slots : Assign(w)
    \/ \E w \in Slots : LcPeriods(w)
    \/ \E w \in Slots : LcModels(w)
    \/ \E w \in Slots : LcLike(w)
    \/ \E w \in Slots : Density(w)
    \/ \E w \in Slots : RvPeriods(w)
    \/ \E w \in Slots : RvModel(w)
    \/ \E w \in Slots : RvTrend(w)
    \/ \E w \in Slots : RvLike(w)
    \/ \E w \in Slots : Return(w)
    \/ ExtractSamples

SpecPrior == InitPrior /\ [][NextPrior]_vars

\* The non-fixed entries of the priors, by their index in priors order.
FreeEntries(c) == {k \in 1..Len(c.priors) : c.priors[k].type # "fixed"}

\* C12: prior, loglike and the extraction of the posterior samples map
\* position k of the vector to the same name, the k-th non-fixed entry of
\* the priors; fixed entries take no position and the positions used are
\* exactly 1..n_params.
C12_OneFreeIndex ==
    /\ \A i \in 1..Len(held) :
          ~held[i].raised =>
              /\ Len(held[i].x) = n_params(cfg)
              /\ \A k \in FreeEntries(cfg) :
                    LET at == held[i].x[FreePosition(cfg, k)]
                    IN  /\ at.fn \notin {"zero", "None"}
                        /\ at.of = cfg.priors[k].name
                        /\ at.val = held[i].u[FreePosition(cfg, k)]
    /\ \A w \in Slots :
          (run.pc = "sampling" /\ frame[w].pc \notin {"idle", "assign"}) =>
              \A k \in FreeEntries(cfg) :
                  /\ cvalue[cfg.priors[k].name] = frame[w].cube[FreePosition(cfg, k)]
                  /\ cvalue[cfg.priors[k].name].of = cfg.priors[k].name
    /\ run.pc = "extracted" =>
          \A k \in FreeEntries(cfg) :
              /\ out.named[cfg.priors[k].name] =
                    [j \in 1..Len(out.unnamed) |-> out.unnamed[j][FreePosition(cfg, k)]]
              /\ \A j \in 1..Len(out.unnamed) :
                    out.named[cfg.priors[k].name][j].of = cfg.priors[k].name
              /\ cvalue[cfg.priors[k].name].fn = "median"
              /\ cvalue[cfg.priors[k].name].of = cfg.priors[k].name

\* C12 witness: two different cubes were transformed under dynesty, loglike
\* ran on one of them, and the samples were extracted by name.
C12_Witness ==
    /\ cfg.id = "kinds"
    /\ run.use_dynesty
    /\ run.pc = "extracted"
    /\ Len(held) = 2
    /\ held[1].u # held[2].u
    /\ nevals >= 1
    /\ DOMAIN out.named = {cfg.priors[k].name : k \in FreeEntries(cfg)}

\* C15: the vector prior(u1) returned still equals the transform of u1
\* after every later call prior(u2).
C15_PriorResultsIndependent ==
    \A i \in 1..Len(held) : ~held[i].raised => Deref(held[i]) = held[i].x

\* C16: during sampling prior() never meets a kind it cannot transform: it
\* gives a number for every free parameter and raises nothing.
C16_PriorAlwaysNumeric ==
    /\ run.pc # "TypeError"
    /\ \A i \in 1..Len(held) : ~held[i].raised

\* ---------------------------------------------------------------------
\* Successive runs of the script on one output folder (lines 296-302 and
\* 892-989).  A file of the folder is [name, out, by], by naming the run
\* that wrote it.
\* ---------------------------------------------------------------------

MaxRuns == 3

\* The command lines that differ in the sampler they ask for.
Backends ==
    {Options(FALSE, FALSE, "none"),
     Options(TRUE, FALSE, "none"), Options(TRUE, FALSE, "4"),
     Options(TRUE, TRUE, "none"), Options(TRUE, TRUE, "4")}

\* The pickle a run with these options dumps and loads.
PosteriorFile(opts) ==
    IF opts.use_dynesty
    THEN IF opts.dynamic THEN "_dynesty_DNS_posteriors.pkl"
         ELSE "_dynesty_NS_posteriors.pkl"
    ELSE "posteriors.pkl"

\* os.path.exists(out_folder + name)
exists(d, name) == \E f \in d : f.name = name

FileAt(d, name) == CHOOSE f \in d : f.name = name

\* The run that is writing, as recorded in the files it writes.
Writer(r) ==
    [use_dynesty |-> r.use_dynesty, dynamic |-> r.dynamic,
     dynesty_nthreads |-> r.dynesty_nthreads, n |-> r.n]

\* open(out_folder + name, 'wb') and pickle.dump: the file is replaced.
dump(d, name, o, r) ==
    {f \in d : f.name # name} \cup {[name |-> name, out |-> o, by |-> Writer(r)]}

\* The ways a run of the script ends.
Ended == {"exited", "NameError", "FileNotFoundError"}

\* The equal-weighted samples a sampler can end with: rows of transformed
\* unit cubes.
SampleRow(c, u) ==
    prior(c, TRUE, [k \in 1..n_params(c) |-> ZeroVal], u).transformed_priors

PosteriorSamples(c) ==
    {<<SampleRow(c, u1), SampleRow(c, u2)>> : u1 \in UnitCubes(c), u2 \in UnitCubes(c)}

LnZs == {-12, -7}

\* The script is started with opts on the folder: setup copies the priors
\* file when the folder has none, and line 896 decides between sampling
\* and loading.
StartRun(opts) ==
    /\ run.pc \in Ended
    /\ run.n < MaxRuns
    /\ run' = [opts EXCEPT !.n = run.n + 1,
                           !.pc = IF exists(disk, "posteriors.pkl") THEN "load"
                                  ELSE "sample"]
    /\ disk' = IF exists(disk, "priors.dat") THEN disk
               ELSE dump(disk, "priors.dat", NoOut, [opts EXCEPT !.n = run.n + 1])
    /\ cvalue' = SetupStore(cfg).cvalue
    /\ out' = NoOut
    /\ UNCHANGED <<cfg, params, radvel_params, GPVector, rvresiduals,
                   rvresiduals_err, frame, nevals, transformed_priors, held, bp, probe>>

\* The branch of line 896 that samples: the sampler runs, the samples are
\* extracted by position and out is dumped to the file the backend names.
\* The static dynesty sampler with threads uses contextlib, which only
\* the dynamic branch imports.
SampleAndDump(posterior_samples, lnZ) ==
    /\ run.pc = "sample"
    /\ IF run.use_dynesty /\ ~run.dynamic /\ run.dynesty_nthreads # "none"
       THEN /\ run' = [run EXCEPT !.pc = "NameError"]
            /\ UNCHANGED <<cvalue, out, disk>>
       ELSE LET r == ExtractLoop(cfg.priors, 1, 1,
                                 [cvalue |-> cvalue, named |-> <<>>],
                                 posterior_samples)
                o == [lnZ |-> lnZ, unnamed |-> posterior_samples, named |-> r.named]
            IN  /\ cvalue' = r.cvalue
                /\ out' = o
                /\ disk' = dump(disk, PosteriorFile(run), o, run)
                /\ run' = [run EXCEPT !.pc = "exited"]
    /\ UNCHANGED <<cfg, params, radvel_params, GPVector, rvresiduals,
                   rvresiduals_err, frame, nevals, transformed_priors, held, bp, probe>>

\* The cvalue of every non-fixed entry becomes the median of its named
\* samples.
RECURSIVE LoadLoop(_, _, _, _)
LoadLoop(priors, k, cv, o) ==
    IF k > Len(priors) THEN cv
    ELSE IF priors[k].type # "fixed"
         THEN LoadLoop(priors, k + 1,
                       [cv EXCEPT ![priors[k].name] = Median(o.named[priors[k].name])], o)
         ELSE LoadLoop(priors, k + 1, cv, o)

\* The else branch of line 896: the pickle the backend names is opened and
\* loaded; open() raises when the folder does not hold it.
LoadExisting ==
    /\ run.pc = "load"
    /\ IF exists(disk, PosteriorFile(run))
       THEN LET o == FileAt(disk, PosteriorFile(run)).out
            IN  /\ out' = o
                /\ cvalue' = LoadLoop(cfg.priors, 1, cvalue, o)
                /\ run' = [run EXCEPT !.pc = "exited"]
       ELSE /\ run' = [run EXCEPT !.pc = "FileNotFoundError"]
            /\ UNCHANGED <<cvalue, out>>
    /\ UNCHANGED <<cfg, params, radvel_params, GPVector, rvresiduals,
                   rvresiduals_err, frame, nevals, transformed_priors, held,
                   disk, bp, probe>>

InitRun ==
    /\ StoreInit(RunKinds, 1)
    /\ transformed_priors = [k \in 1..n_params(RunKinds) |-> ZeroVal]
    /\ held = <<>>
    /\ out = NoOut
    /\ disk = {}
    /\ run = [Options(FALSE, FALSE, "none") EXCEPT !.pc = "exited"]
    /\ bp = NoBp
    /\ probe = NoProbe

NextRun ==
    \/ \E opts \in Backends : StartRun(opts)
    \/ \E posterior_samples \in PosteriorSamples(cfg), lnZ \in LnZs :
          SampleAndDump(posterior_samples, lnZ)
    \/ LoadExisting

SpecRun == InitRun /\ [][NextRun]_vars

\* The posterior files of the folder.
PosteriorFiles(d) == {f \in d : f.name # "priors.dat"}

SameOptions(a, b) ==
    /\ a.use_dynesty = b.use_dynesty
    /\ a.dynamic = b.dynamic
    /\ a.dynesty_nthreads = b.dynesty_nthreads

\* C13: when an earlier run with the same options has dumped its result to
\* the folder, the run does not sample: it loads, and ends holding the
\* result that was dumped.
C13_CompletedRunIsReloaded ==
    \A f \in PosteriorFiles(disk) :
        (SameOptions(f.by, run) /\ f.by.n < run.n) =>
            /\ run.pc \in {"load", "exited"}
            /\ run.pc = "exited" => out = f.out

\* C14: a posterior file, once in the folder, stays as the run that wrote
\* it left it in every later step of every run.
C14_PosteriorFileWrittenOnce ==
    [][\A f \in PosteriorFiles(disk) : f \in disk']_disk

\* ---------------------------------------------------------------------
\* The efficient sampling of the (b, p) plane (lines 143-147, 692-697).
\* ---------------------------------------------------------------------

\* r1, r2, pl and pu are drawn in steps of 1/GridSteps.
GridSteps == 4

Steps == {Rat(k, GridSteps) : k \in 0..GridSteps}

\* np.sqrt of a fraction whose terms are perfect squares.
RSqrt(x) == Rat(Sqrt(x.n), Sqrt(x.d))

RLe(x, y) == ~RLt(y, x)

\* Ar = (pu - pl)/(2. + pl + pu)
Ar(pl, pu) == RDiv(RSub(pu, pl), RAdd(RInt(2), RAdd(pl, pu)))

\* The r1 > Ar branch with p independent of r2.
bp_above_flat(pl, pu, r1, r2) ==
    [b |-> RMul(RAdd(RInt(1), pl),
                RAdd(RInt(1), RDiv(RSub(r1, RInt(1)), RSub(RInt(1), Ar(pl, pu))))),
     p |-> pl]

\* b,p = (1+pl)*(1. + (r1-1.)/(1.-Ar)), (1-r2)*pl + r2*pu
bp_above(pl, pu, r1, r2) ==
    [b |-> RMul(RAdd(RInt(1), pl),
                RAdd(RInt(1), RDiv(RSub(r1, RInt(1)), RSub(RInt(1), Ar(pl, pu))))),
     p |-> RAdd(RMul(RSub(RInt(1), r2), pl), RMul(r2, pu))]

\* The r1 <= Ar branch with (1.+r2) in place of (1.-r2).
bp_below_mirrored(pl, pu, r1, r2) ==
    LET root == RSqrt(RDiv(r1, Ar(pl, pu)))
    IN  [b |-> RAdd(RAdd(RInt(1), pl), RMul(RMul(root, r2), RSub(pu, pl))),
         p |-> RAdd(pu, RMul(RMul(RSub(pl, pu), root), RAdd(RInt(1), r2)))]

\* b,p = (1. + pl) + np.sqrt(r1/Ar)*r2*(pu-pl),
\*       pu + (pl-pu)*np.sqrt(r1/Ar)*(1.-r2)
bp_below(pl, pu, r1, r2) ==
    LET root == RSqrt(RDiv(r1, Ar(pl, pu)))
    IN  [b |-> RAdd(RAdd(RInt(1), pl), RMul(RMul(root, r2), RSub(pu, pl))),
         p |-> RAdd(pu, RMul(RMul(RSub(pl, pu), root), RSub(RInt(1), r2)))]

\* if r1 > Ar: ... else: ...
efficient_bp(pl, pu, r1, r2) ==
    IF RGt(r1, Ar(pl, pu)) THEN bp_above(pl, pu, r1, r2)
    ELSE bp_below(pl, pu, r1, r2)

\* The bounds 0 <= pl < pu <= 1 of the grid.
BpBounds == {<<pl, pu>> \in Steps \X Steps : RLt(pl, pu)}

\* The values of r1 in [0,1] for which the square root is exact: Ar*s*s
\* at and below Ar, and the grid points between Ar and 1 above it.
R1s(pl, pu) ==
    {RMul(Ar(pl, pu), RMul(s, s)) : s \in Steps} \cup
    {RAdd(Ar(pl, pu), RMul(RSub(RInt(1), Ar(pl, pu)), t)) : t \in Steps \ {RInt(0)}}

\* The script has read pl, pu and loglike holds a sample's r1, r2.
InitBP ==
    /\ StoreInit(RunGeom, 1)
    /\ transformed_priors = <<>>
    /\ held = <<>>
    /\ out = NoOut
    /\ disk = {}
    /\ run = Options(FALSE, FALSE, "none")
    /\ probe = NoProbe
    /\ \E bounds \in BpBounds :
          \E r1 \in R1s(bounds[1], bounds[2]), r2 \in Steps :
              bp = [pl |-> bounds[1], pu |-> bounds[2], r1 |-> r1, r2 |-> r2,
                    b |-> RInt(0), p |-> RInt(0), pc |-> "drawn"]

\* Lines 692-697.
Reparametrize ==
    /\ bp.pc = "drawn"
    /\ LET r == efficient_bp(bp.pl, bp.pu, bp.r1, bp.r2)
       IN  bp' = [bp EXCEPT !.b = r.b, !.p = r.p, !.pc = "mapped"]
    /\ UNCHANGED <<cfg, cvalue, params, radvel_params, GPVector, rvresiduals,
                   rvresiduals_err, frame, nevals, transformed_priors, held,
                   out, disk, run, probe>>

NextBP == Reparametrize

SpecBP == InitBP /\ [][NextBP]_vars

\* C17 as stated: every (b, p) produced has b >= 0 and 0 < p < 1.
C17_RadiusRatioStrictlyInside ==
    bp.pc = "mapped" =>
        /\ RGe(bp.b, RInt(0))
        /\ RLt(RInt(0), bp.p)
        /\ RLt(bp.p, RInt(1))

\* C17, amended: every (b, p) produced has b >= 0 and pl <= p <= pu, so
\* 0 <= p <= 1; b > 0 on the r1 > Ar branch and b >= 1 + pl on the other.
C17_RadiusRatioWithinBounds ==
    bp.pc = "mapped" =>
        /\ RGe(bp.b, RInt(0))
        /\ RLe(bp.pl, bp.p)
        /\ RLe(bp.p, bp.pu)
        /\ RGt(bp.r1, Ar(bp.pl, bp.pu)) => RGt(bp.b, RInt(0))
        /\ RLe(bp.r1, Ar(bp.pl, bp.pu)) => RGe(bp.b, RAdd(RInt(1), bp.pl))

\* C17 witness: on the r1 > Ar branch with pl = 0 and r2 = 0 the radius
\* ratio produced is exactly 0.
C17_Witness ==
    /\ bp.pc = "mapped"
    /\ RGt(bp.r1, Ar(bp.pl, bp.pu))
    /\ bp.pl = RInt(0)
    /\ bp.r2 = RInt(0)
    /\ bp.p = RInt(0)

\* The points of the unit square the grid holds for pl = 0, pu = 1.
UnitSquare == R1s(RInt(0), RInt(1)) \X Steps

MapsTo(pl, pu, point) ==
    LET r == efficient_bp(pl, pu, point[1], point[2])
    IN  <<r.b, r.p>>

\* C18 as stated: with pl = 0, pu = 1 no other point of [0,1]^2 produces
\* the (b, p) this point produced.
C18_InjectiveOnSquare ==
    (bp.pc = "mapped" /\ bp.pl = RInt(0) /\ bp.pu = RInt(1)) =>
        \A other \in UnitSquare :
            MapsTo(bp.pl, bp.pu, other) = <<bp.b, bp.p>> => other = <<bp.r1, bp.r2>>

\* C18, amended: with pl = 0, pu = 1 the map is one-to-one on the points
\* with 0 < r1 < 1, on both sides of r1 = Ar.
C18_InjectiveInside ==
    (bp.pc = "mapped" /\ bp.pl = RInt(0) /\ bp.pu = RInt(1)
        /\ RLt(RInt(0), bp.r1) /\ RLt(bp.r1, RInt(1))) =>
        \A other \in UnitSquare :
            (RLt(RInt(0), other[1]) /\ RLt(other[1], RInt(1))
                /\ MapsTo(bp.pl, bp.pu, other) = <<bp.b, bp.p>>)
            => other = <<bp.r1, bp.r2>>

\* C18 witness: a point on each side of Ar = 1/3 has been compared: the
\* mapped point lies below Ar and the square holds inner points above it.
C18_Witness ==
    /\ bp.pc = "mapped"
    /\ bp.pl = RInt(0) /\ bp.pu = RInt(1)
    /\ Ar(bp.pl, bp.pu) = Rat(1, 3)
    /\ RLt(RInt(0), bp.r1) /\ RLt(bp.r1, Ar(bp.pl, bp.pu))
    /\ RLt(RInt(0), bp.r2) /\ RLt(bp.r2, RInt(1))
    /\ \E other \in UnitSquare :
          RGt(other[1], Ar(bp.pl, bp.pu)) /\ RLt(other[1], RInt(1))

\* The value the call in slot w was given for the parameter named nm: its
\* entry of the vector when free, its fixed value otherwise.
ValueInCall(w, nm) ==
    LET k == CHOOSE j \in 1..Len(cfg.priors) : cfg.priors[j].name = nm
    IN  IF cfg.priors[k].type = "fixed" THEN CHOOSE v \in cfg.priors[k].value : TRUE
        ELSE frame[w].cube[FreePosition(cfg, k)]

\* The photometric GP terms of a returned evaluation.
GPTermsOf(w, kind) ==
    {j \in 1..Len(frame[w].ret.terms) : frame[w].ret.terms[j].kind = kind}

\* C19: the vector a photometric CeleriteQP GP is given in an evaluation
\* is [log B, log L, log Prot, log C, log jitter] in this order, each from
\* the value this evaluation was given for the prior bound to the role;
\* for B = 2, L = 5, Prot = 3, C = 1 and a jitter of 100e-6 it is
\* [log 2, log 5, log 3, log 1, log 100e-6].
C19_CeleriteVectorOrder ==
    \A w \in Returned : \A j \in GPTermsOf(w, "gp") :
        LET t    == frame[w].ret.terms[j]
            inst == t.inst
            B    == ValueInCall(w, PName("GP_B", GPGroup(cfg, "GP_B", inst)))
            L    == ValueInCall(w, PName("GP_L", GPGroup(cfg, "GP_L", inst)))
            Prot == ValueInCall(w, PName("GP_Prot", GPGroup(cfg, "GP_Prot", inst)))
            C    == ValueInCall(w, PName("GP_C", GPGroup(cfg, "GP_C", inst)))
            sigma_w == ValueInCall(w, PName("sigma_w", inst))
        IN  /\ Len(t.gpv) = 5
            /\ t.gpv[1] = Log(RInt(B))
            /\ t.gpv[2] = Log(RInt(L))
            /\ t.gpv[3] = Log(RInt(Prot))
            /\ t.gpv[4] = Log(RInt(C))
            /\ t.gpv[5].fn = "log"
            /\ RMul(t.gpv[5].arg, RInt(1000000)) = RInt(sigma_w)
            /\ (B = 2 /\ L = 5 /\ Prot = 3 /\ C = 1 /\ sigma_w = 100) =>
                  t.gpv = << Log(RInt(2)), Log(RInt(5)), Log(RInt(3)), Log(RInt(1)),
                             Log(Rat(100, 1000000)) >>

\* C19 witness: an evaluation with B = 2, L = 5, Prot = 3, C = 1 and
\* sigma_w = 100 ppm has returned after an evaluation with other values
\* wrote the vector.
C19_Witness ==
    /\ cfg.id = "celerite"
    /\ nevals >= 2
    /\ \E w \in Returned :
          /\ GPTermsOf(w, "gp") # {}
          /\ frame[w].cube = <<100, 2, 5>>

\* C20: the CeleriteQP vector the GP is given has length 5 for a photometric
\* instrument and length 4 for the RVs, and no entry of it is the zero the
\* setup put there.
C20_VectorLengthAndFreshness ==
    \A w \in Returned :
        /\ \A j \in GPTermsOf(w, "gp") :
              /\ Len(frame[w].ret.terms[j].gpv) = 5
              /\ \A e \in 1..5 : frame[w].ret.terms[j].gpv[e].fn # "zero"
        /\ \A j \in GPTermsOf(w, "gp_rv") :
              /\ Len(frame[w].ret.terms[j].gpv) = 4
              /\ \A e \in 1..Len(frame[w].ret.terms[j].gpv) :
                    frame[w].ret.terms[j].gpv[e].fn # "zero"

\* ---------------------------------------------------------------------
\* The setup loops that bind every GP hyperparameter of an instrument to
\* the group of instruments sharing it (lines 366-370, 383-387, 407-415).
\* A string is the sequence of its parts, no part being a piece of
\* another: 'alpha10' is <<"alpha", "1", "0">>, 'TESS' is <<"TESS">>.
\* ---------------------------------------------------------------------

\* x in y for two strings: x occurs in y as a run of consecutive parts.
StrIn(x, y) ==
    \E at \in 0..(Len(y) - Len(x)) : \A j \in 1..Len(x) : y[at + j] = x[j]

\* pnames.split('_') of the prior 'GP_<role>_<group>'.
GPName(role, group) == <<(<<"GP">>), role>> \o group

Alpha(digits) == <<"alpha">> \o digits

\* The alphaN of N = 0..10.
AlphaOf(ialpha) == IF ialpha < 10 THEN Alpha(<<ToString(ialpha)>>) ELSE Alpha(<<"1", "0">>)

\* GPvariables of the three kernels; nX is the number of regressors.
GPvariables(GPType, nX) ==
    CASE GPType = "CeleriteQPKernel" -> << <<"B">>, <<"C">>, <<"L">>, <<"Prot">> >>
      [] GPType = "ExpSineSquaredSEKernel" ->
            << <<"sigma">>, <<"alpha">>, <<"Gamma">>, <<"Prot">> >>
      [] GPType = "SEKernel" ->
            << <<"sigma">> >> \o [ialpha \in 1..nX |-> AlphaOf(ialpha - 1)]

\* for pnames in priors.keys(): if (vec[0] == 'GP') and (GPvariable in
\* vec[1]) and (instrument in vec): ...['GP_'+GPvariable] = vec[2:].
\* bound is <<>> while the key is absent, <<group>> once assigned.
RECURSIVE BindRole(_, _, _, _, _)
BindRole(names, k, GPvariable, instrument, bound) ==
    IF k > Len(names) THEN bound
    ELSE LET vec == names[k]
         IN  IF vec[1] = <<"GP">> /\ StrIn(GPvariable, vec[2])
                /\ (\E j \in 1..Len(vec) : vec[j] = instrument)
             THEN BindRole(names, k + 1, GPvariable, instrument,
                           <<SubSeq(vec, 3, Len(vec))>>)
             ELSE BindRole(names, k + 1, GPvariable, instrument, bound)

\* for GPvariable in GPvariables: the keys 'GP_'+GPvariable of the
\* instrument's dictionary.
BindAll(names, roles, instrument) ==
    [r \in 1..Len(roles) |-> BindRole(names, 1, roles[r], instrument, <<>>)]

\* The groups a prior can name for the instrument TESS.
Groups == { << <<"TESS">> >>, << <<"TESS">>, <<"K2">> >> }

\* Priors files that declare every role of the kernel once, in the order
\* of the kernel's list or in the reverse order, the group of every role
\* being TESS alone except for the roles in shared.
DeclaredOnce(roles, shared, reversed) ==
    LET n == Len(roles)
        at(k) == IF reversed THEN n + 1 - k ELSE k
    IN  [k \in 1..n |->
            GPName(roles[at(k)],
                   IF at(k) \in shared THEN << <<"TESS">>, <<"K2">> >>
                   ELSE << <<"TESS">> >>)]

\* The numbers of regressors explored for the SEKernel.
Regressors == {2, 11}

Kernels ==
    {[GPType |-> "CeleriteQPKernel", nX |-> 1],
     [GPType |-> "ExpSineSquaredSEKernel", nX |-> 1]} \cup
    {[GPType |-> "SEKernel", nX |-> n] : n \in Regressors}

\* The roles whose group the explored priors files vary.
Varied(roles) == {r \in 1..Len(roles) : r <= 3 \/ r = Len(roles)}

\* The script state around a statement that is run on its own.
ProbeInit(p) ==
    /\ StoreInit(RunPool, 1)
    /\ transformed_priors = <<>>
    /\ held = <<>>
    /\ out = NoOut
    /\ disk = {}
    /\ run = Options(FALSE, FALSE, "none")
    /\ bp = NoBp
    /\ probe = p

ProbeOnly ==
    UNCHANGED <<cfg, cvalue, params, radvel_params, GPVector, rvresiduals,
                rvresiduals_err, frame, nevals, transformed_priors, held, out,
                disk, run, bp>>

\* The script has read the priors and detected the kernel of TESS; a
\* priors file may declare the first role a second time, for TESS and K2.
InitBind ==
    \E kernel \in Kernels, reversed \in BOOLEAN, twice \in BOOLEAN :
        LET roles == GPvariables(kernel.GPType, kernel.nX)
        IN  \E shared \in SUBSET Varied(roles) :
                ProbeInit([pc |-> "read",
                           GPType |-> kernel.GPType, nX |-> kernel.nX,
                           instrument |-> <<"TESS">>,
                           names |-> DeclaredOnce(roles, shared, reversed) \o
                                     (IF twice
                                      THEN <<GPName(roles[1], << <<"TESS">>, <<"K2">> >>)>>
                                      ELSE <<>>),
                           bound |-> <<>>])

\* The binding loops of the detected kernel.
BindGPvariables ==
    /\ probe.pc = "read"
    /\ probe' = [probe EXCEPT
                    !.pc = "bound",
                    !.bound = BindAll(probe.names,
                                      GPvariables(probe.GPType, probe.nX),
                                      probe.instrument)]
    /\ ProbeOnly

NextBind == BindGPvariables

SpecBind == InitBind /\ [][NextBind]_vars

\* The priors that declare the role for the instrument: named exactly for
\* the role, the instrument being one of the parts of the name.
Declaring(names, role, instrument) ==
    {k \in 1..Len(names) :
        /\ names[k][1] = <<"GP">>
        /\ names[k][2] = role
        /\ \E j \in 3..Len(names[k]) : names[k][j] = instrument}

\* C21: after setup every role of the kernel is bound, to the group of the
\* one prior that declares it for the instrument; no role is bound with
\* none or with two declarations, or through the prior of another role.
C21_RolesBoundToOwnDeclaration ==
    probe.pc = "bound" =>
        LET roles == GPvariables(probe.GPType, probe.nX)
        IN  \A r \in 1..Len(roles) :
                LET declaring == Declaring(probe.names, roles[r], probe.instrument)
                IN  /\ Cardinality(declaring) = 1
                    /\ \A k \in declaring :
                          probe.bound[r] =
                              <<SubSeq(probe.names[k], 3, Len(probe.names[k]))>>

\* aline*t + bline, or qquad*t**2 + aline*t + bline, at time t.
TrendAt(trend, t) ==
    IF Len(trend) = 2 THEN trend[1] * t + trend[2]
    ELSE trend[1] * t * t + trend[2] * t + trend[3]

\* The terms of a returned evaluation whose RV model carries a trend.
TrendTermsOf(w) ==
    {j \in 1..Len(frame[w].ret.terms) : frame[w].ret.terms[j].trend # <<>>}

\* C22: the trend added to the RV model, linear or quadratic, is zero at
\* t = rv_tzero for every slope, quadratic coefficient and rv_tzero.
C22_TrendZeroAtTzero ==
    \A w \in Returned : \A j \in TrendTermsOf(w) :
        /\ Len(frame[w].ret.terms[j].trend) = IF fitrvquad(cfg) THEN 3 ELSE 2
        /\ TrendAt(frame[w].ret.terms[j].trend,
                   ValueInCall(w, PName("rv_tzero", 0))) = 0

\* C22 witness: a quadratic trend with nonzero coefficients and a nonzero
\* rv_tzero was added to the RV model of a returned evaluation.
C22_Witness ==
    \E w \in Returned : \E j \in TrendTermsOf(w) :
        LET trend == frame[w].ret.terms[j].trend
        IN  /\ Len(trend) = 3
            /\ trend[1] # 0 /\ trend[2] # 0 /\ trend[3] # 0
            /\ ValueInCall(w, PName("rv_tzero", 0)) = 5

\* C23: with an RV GP, an evaluation that reaches the RV likelihood leaves
\* in the pooled arrays the residual and the error (measurement error and
\* jitter in quadrature) of every RV instrument as this evaluation computes
\* them, adds one GP term on the pooled arrays and no white-noise term;
\* without RV GP it adds one white-noise term per RV instrument and no GP
\* term.
C23_RvLikelihoodTerms ==
    \A w \in Returned :
        (cfg.rvfilename /\ ~frame[w].ret.floor /\ frame[w].gate = "none") =>
            LET terms == frame[w].ret.terms
                gp    == GPTermsOf(w, "gp_rv")
                white == GPTermsOf(w, "gaussian_rv")
            IN  IF cfg.rveparamfile
                THEN /\ Cardinality(gp) = 1
                     /\ white = {}
                     /\ \A k \in 1..Len(cfg.inames_rv) :
                           /\ rvresiduals[k] =
                                 << [kep |-> frame[w].rvmodel, trend |-> frame[w].trend,
                                     mu |-> ValueInCall(w, PName("mu", cfg.inames_rv[k]))] >>
                           /\ rvresiduals_err[k] =
                                 << Quadrature(cfg.inames_rv[k],
                                       ValueInCall(w, PName("sigma_w_rv", cfg.inames_rv[k]))) >>
                     /\ \A j \in gp : /\ terms[j].resid = rvresiduals
                                      /\ terms[j].err = rvresiduals_err
                ELSE /\ gp = {}
                     /\ Cardinality(white) = Len(cfg.inames_rv)
                     /\ \A k \in 1..Len(cfg.inames_rv) :
                           \E j \in white : terms[j].inst = cfg.inames_rv[k]

\* C23 witness: with an RV GP and two RV instruments, a third evaluation
\* has returned its GP term after evaluations with other jitters and
\* offsets filled the pooled arrays.
C23_Witness ==
    /\ cfg.id = "rvtwogp"
    /\ nevals = 3
    /\ \E w \in Returned :
          /\ GPTermsOf(w, "gp_rv") # {}
          /\ frame[w].cube = <<4, 9>>

\* ---------------------------------------------------------------------
\* gaussian_log_likelihood (lines 614-618) and its two callers (lines
\* 744-747, 851-856).  The value -0.5*(n*log2pi + sum(log(x_i)) + quad) is
\* kept as [n, logs, quad]: the arguments x_i of np.log and the exact sum
\* of the quadratic terms.
\* ---------------------------------------------------------------------

\* The longest residual vector drawn besides the vector of the example.
MaxResiduals == 2

RECURSIVE RSum(_)
RSum(q) == IF q = <<>> THEN RInt(0) ELSE RAdd(Head(q), RSum(Tail(q)))

\* 1./x
RInv(x) == RDiv(RInt(1), x)

\* A likelihood whose taus leave the jitter out.
gaussian_log_likelihood_errors_only(residuals, errors, jitter) ==
    LET taus == [i \in 1..Len(errors) |-> RInv(RMul(errors[i], errors[i]))]
    IN  [n    |-> Len(residuals),
         logs |-> [i \in 1..Len(residuals) |-> RInv(taus[i])],
         quad |-> RSum([i \in 1..Len(residuals) |->
                           RMul(taus[i], RMul(residuals[i], residuals[i]))])]

\* taus = 1./(errors**2 + jitter**2)
\* return -0.5*(len(residuals)*log2pi+np.sum(np.log(1./taus)+taus*(residuals**2)))
gaussian_log_likelihood(residuals, errors, jitter) ==
    LET taus == [i \in 1..Len(errors) |->
                    RInv(RAdd(RMul(errors[i], errors[i]), RMul(jitter, jitter)))]
    IN  [n    |-> Len(residuals),
         logs |-> [i \in 1..Len(residuals) |-> RInv(taus[i])],
         quad |-> RSum([i \in 1..Len(residuals) |->
                           RMul(taus[i], RMul(residuals[i], residuals[i]))])]

\* The jitter a caller passes: the photometric block passes sigma_w*1e-6,
\* the RV block sigma_w_rv as it is.
JitterPassed(context, sigma_w) ==
    IF context = "lc" THEN RMul(sigma_w, Rat(1, 1000000)) ELSE sigma_w

\* The residuals [0.1, -0.2, 0.05, 0, 0.15].
ExampleResiduals == <<Rat(1, 10), Rat(-1, 5), Rat(1, 20), RInt(0), Rat(3, 20)>>

RECURSIVE SeqsUpTo(_, _)
SeqsUpTo(S, n) ==
    IF n = 0 THEN {<<>>}
    ELSE SeqsUpTo(S, n - 1) \cup
         {Append(q, x) : q \in SeqsUpTo(S, n - 1), x \in S}

ResidualVectors ==
    (SeqsUpTo({Rat(-1, 5), RInt(0), Rat(1, 10)}, MaxResiduals) \ {<<>>})
    \cup {ExampleResiduals}

\* Errors of n points: all base, or every second one twice as large.
ErrorVectors(n) ==
    {[i \in 1..n |-> IF uneven /\ i % 2 = 0 THEN RMul(RInt(2), base) ELSE base] :
        base \in {Rat(1, 10), Rat(1, 5)}, uneven \in BOOLEAN}

\* The jitter parameter: sigma_w in ppm for photometry, sigma_w_rv in the
\* units of the RVs.
SigmaValues(context) ==
    IF context = "lc" THEN {RInt(0), RInt(100000), RInt(300000)}
    ELSE {RInt(0), Rat(1, 10), Rat(3, 10)}

\* loglike has the residuals of an instrument without GP.
InitGauss ==
    \E context \in {"lc", "rv"}, residuals \in ResidualVectors :
        \E errors \in ErrorVectors(Len(residuals)), sigma_w \in SigmaValues(context) :
            ProbeInit([pc |-> "residuals", context |-> context,
                       residuals |-> residuals, errors |-> errors,
                       sigma_w |-> sigma_w,
                       added |-> [n |-> 0, logs |-> <<>>, quad |-> RInt(0)]])

\* log_likelihood += gaussian_log_likelihood(residuals, errors, jitter)
AddWhiteNoise ==
    /\ probe.pc = "residuals"
    /\ probe' = [probe EXCEPT
                    !.pc = "added",
                    !.added = gaussian_log_likelihood(
                                  probe.residuals, probe.errors,
                                  JitterPassed(probe.context, probe.sigma_w))]
    /\ ProbeOnly

NextGauss == AddWhiteNoise

SpecGauss == InitGauss /\ [][NextGauss]_vars

\* The jitter j of the instrument, in the units of its data.
JitterOf(context, sigma_w) ==
    IF context = "lc" THEN Rat(sigma_w.n, 1000000 * sigma_w.d) ELSE sigma_w

\* C24: the white-noise contribution is -0.5*(N*log(2*pi) + sum
\* log(sigma_i^2 + j^2) + sum r_i^2/(sigma_i^2 + j^2)); for the residuals
\* [0.1,-0.2,0.05,0,0.15], uniform error 0.1 and jitter 0 that is
\* -0.5*(5*log(2*pi) + 5*log(0.01) + 7.5).
C24_WhiteNoiseClosedForm ==
    probe.pc = "added" =>
        LET j   == JitterOf(probe.context, probe.sigma_w)
            var == [i \in 1..Len(probe.residuals) |->
                       RAdd(RMul(probe.errors[i], probe.errors[i]), RMul(j, j))]
        IN  /\ probe.added.n = Len(probe.residuals)
            /\ probe.added.logs = var
            /\ probe.added.quad =
                  RSum([i \in 1..Len(probe.residuals) |->
                           RDiv(RMul(probe.residuals[i], probe.residuals[i]), var[i])])
            /\ (/\ probe.residuals = ExampleResiduals
                /\ \A i \in 1..5 : probe.errors[i] = Rat(1, 10)
                /\ j = RInt(0)) =>
                  probe.added = [n |-> 5, logs |-> [i \in 1..5 |-> Rat(1, 100)],
                                 quad |-> Rat(15, 2)]

\* C24 witness: the term was added for the residuals of the example with
\* uniform error 0.1 and jitter 0.
C24_Witness ==
    /\ probe.pc = "added"
    /\ probe.residuals = ExampleResiduals
    /\ \A i \in 1..5 : probe.errors[i] = Rat(1, 10)
    /\ probe.sigma_w = RInt(0)
    /\ probe.added.quad = Rat(15, 2)

\* C25: with a density constraint, rho not sampled and several transiting
\* planets, the density term is computed from the a and P of the last
\* planet of numbering_transit, whatever the number of instruments and
\* planets.
C25_DensityFromLastPlanet ==
    \A w \in Returned :
        (Len(cfg.numbering_transit) > 1 /\ cfg.lcfilename) =>
            \A j \in GPTermsOf(w, "density") :
                LET last == cfg.numbering_transit[Len(cfg.numbering_transit)]
                IN  /\ frame[w].ret.terms[j].a = Hund(ValueInCall(w, PName("a_p", last)))
                    /\ frame[w].ret.terms[j].v = <<ValueInCall(w, PName("P_p", last))>>

\* C25 witness: two instruments, two planets with different a and P, and
\* the density term of a returned evaluation.
C25_Witness ==
    /\ cfg.id = "density"
    /\ \E w \in Returned :
          /\ GPTermsOf(w, "density") # {}
          /\ ValueInCall(w, PName("a_p", 1)) # ValueInCall(w, PName("a_p", 2))
          /\ ValueInCall(w, PName("P_p", 1)) # ValueInCall(w, PName("P_p", 2))

\* C26: whatever the sampler options, a run that enters the sampling
\* branch reaches the call that starts the sampler: it never ends between
\* the two with an exception.
C26_SamplingBlockReachesSampler ==
    run.pc # "NameError"

\* ---------------------------------------------------------------------
\* The eccentricity parametrization of a planet: the two setup loops
\* (lines 270-298) and the two dispatches of loglike (lines 708-715 and
\* 813-820), each as the source writes it.
\* ---------------------------------------------------------------------

\* The planets of the explored priors files.
EccPlanets == {1, 2}

EccKinds ==
    {"ecc_p", "omega_p", "ecosomega_p", "esinomega_p", "secosomega_p", "sesinomega_p"}

\* ecc_parametrization['transit'][i]
TagTransit(keys, i) ==
    IF PName("ecosomega_p", i) \in keys THEN 1
    ELSE IF PName("secosomega_p", i) \in keys THEN 2
    ELSE 0

\* An RV loop that looks for secosomega first.
TagRvSqrtFirst(keys, i) ==
    IF PName("secosomega_p", i) \in keys THEN 2
    ELSE IF PName("ecosomega_p", i) \in keys THEN 1
    ELSE 0

\* ecc_parametrization['rv'][i]
TagRv(keys, i) ==
    IF PName("ecosomega_p", i) \in keys THEN 1
    ELSE IF PName("secosomega_p", i) \in keys THEN 2
    ELSE 0

\* The priors the transit dispatch of loglike reads for planet i.
ReadsTransit(tag, i) ==
    IF tag = 0 THEN {PName("ecc_p", i), PName("omega_p", i)}
    ELSE IF tag = 1 THEN {PName("ecosomega_p", i), PName("esinomega_p", i)}
    ELSE {PName("secosomega_p", i), PName("sesinomega_p", i)}

\* The priors the RV dispatch of loglike reads for planet i.
ReadsRv(tag, i) ==
    IF tag = 0 THEN {PName("ecc_p", i), PName("omega_p", i)}
    ELSE IF tag = 1 THEN {PName("ecosomega_p", i), PName("esinomega_p", i)}
    ELSE {PName("secosomega_p", i), PName("sesinomega_p", i)}

\* The priors file names any of the six parameters of planet 1, planet 2
\* has e and omega; each planet transits, has RVs, or both.
InitEcc ==
    \E kinds \in SUBSET EccKinds, transit \in SUBSET EccPlanets, rv \in SUBSET EccPlanets :
        /\ transit \cup rv = EccPlanets
        /\ ProbeInit([pc |-> "read_priors",
                      keys |-> {PName(kind, 1) : kind \in kinds} \cup
                               {PName("ecc_p", 2), PName("omega_p", 2)},
                      numbering_transit |-> transit, numbering_rv |-> rv,
                      transit |-> <<>>, rv |-> <<>>, planet |-> 0,
                      reads |-> {}])

\* The two loops of lines 275-298.
SetParametrizations ==
    /\ probe.pc = "read_priors"
    /\ probe' = [probe EXCEPT
                    !.pc = "tagged",
                    !.transit = [i \in probe.numbering_transit |-> TagTransit(probe.keys, i)],
                    !.rv = [i \in probe.numbering_rv |-> TagRv(probe.keys, i)]]
    /\ ProbeOnly

\* loglike resolves the eccentricity of transiting planet i.
DispatchTransit(i) ==
    /\ probe.pc \in {"tagged", "dispatched"}
    /\ i \in probe.numbering_transit
    /\ probe' = [probe EXCEPT !.pc = "dispatched", !.planet = i,
                              !.reads = ReadsTransit(probe.transit[i], i)]
    /\ ProbeOnly

\* loglike resolves the eccentricity of RV planet i.
DispatchRv(i) ==
    /\ probe.pc \in {"tagged", "dispatched"}
    /\ i \in probe.numbering_rv
    /\ probe' = [probe EXCEPT !.pc = "dispatched", !.planet = i,
                              !.reads = ReadsRv(probe.rv[i], i)]
    /\ ProbeOnly

NextEcc ==
    \/ SetParametrizations
    \/ \E i \in EccPlanets : DispatchTransit(i)
    \/ \E i \in EccPlanets : DispatchRv(i)

SpecEcc == InitEcc /\ [][NextEcc]_vars

\* The tag C27 gives planet i, and the parameters of a tag.
TagOf(keys, i) ==
    CASE PName("ecosomega_p", i) \in keys -> "cos-sin"
      [] PName("ecosomega_p", i) \notin keys /\ PName("secosomega_p", i) \in keys ->
            "sqrt-cos-sin"
      [] OTHER -> "direct"

TagNumber(tag) ==
    CASE tag = "direct" -> 0 [] tag = "cos-sin" -> 1 [] tag = "sqrt-cos-sin" -> 2

ParametersOf(tag, i) ==
    CASE tag = "direct" -> {PName("ecc_p", i), PName("omega_p", i)}
      [] tag = "cos-sin" -> {PName("ecosomega_p", i), PName("esinomega_p", i)}
      [] tag = "sqrt-cos-sin" -> {PName("secosomega_p", i), PName("sesinomega_p", i)}

\* C27: every planet is tagged cos-sin if ecosomega_p<i> is a prior, else
\* sqrt-cos-sin if secosomega_p<i> is, else direct; a planet in both
\* contexts has the same tag in both, and an evaluation reads only the
\* parameters of the planet's tag.
C27_EccDispatch ==
    probe.pc \in {"tagged", "dispatched"} =>
        /\ \A i \in probe.numbering_transit :
              probe.transit[i] = TagNumber(TagOf(probe.keys, i))
        /\ \A i \in probe.numbering_rv :
              probe.rv[i] = TagNumber(TagOf(probe.keys, i))
        /\ \A i \in probe.numbering_transit \cap probe.numbering_rv :
              probe.transit[i] = probe.rv[i]
        /\ probe.pc = "dispatched" =>
              probe.reads = ParametersOf(TagOf(probe.keys, probe.planet), probe.planet)

\* C27 witness: planet 1, with both ecosomega_p1 and secosomega_p1 among
\* the priors and in both contexts, was dispatched as cos-sin.
C27_Witness ==
    /\ probe.pc = "dispatched"
    /\ probe.planet = 1
    /\ 1 \in probe.numbering_transit \cap probe.numbering_rv
    /\ {PName("ecosomega_p", 1), PName("secosomega_p", 1)} \subseteq probe.keys
    /\ probe.reads = {PName("ecosomega_p", 1), PName("esinomega_p", 1)}

\* ---------------------------------------------------------------------
\* The efficient sampling followed by the geometric gate (lines 692-697
\* and 720-723), in the arithmetic of the machine: every sum, product,
\* quotient and square root is rounded to the nearest number with a
\* significand of Bits bits, ties to even.
\* ---------------------------------------------------------------------

\* The significand of a float, scaled down from the 53 bits of a double.
Bits == 3

\* 2**e as a fraction.
Two(e) == IF e >= 0 THEN RInt(2 ^ e) ELSE Rat(1, 2 ^ (0 - e))

\* k / 2**e in lowest terms, for k # 0 and e >= 0.
Dyadic(k, e) ==
    LET t == CHOOSE t \in 0 .. e :
                 /\ k % (2 ^ t) = 0
                 /\ t = e \/ k % (2 ^ (t + 1)) # 0
    IN  [n |-> k \div (2 ^ t), d |-> 2 ^ (e - t)]

\* The e that puts m/b, with 0 < m/b < 2**Bits, between 2**(Bits-1) and
\* 2**Bits.
ExponentOf(m, b) ==
    CHOOSE e \in 0 .. (8 * Bits) :
        /\ m * (2 ^ e) >= (2 ^ (Bits - 1)) * b
        /\ m * (2 ^ e) < (2 ^ Bits) * b

\* The float nearest to a/b for integers a and b > 0, ties to even.
Nearest(a, b) ==
    IF a = 0 THEN RInt(0)
    ELSE LET sgn == IF a < 0 THEN 0 - 1 ELSE 1
             m == Abs(a)
             e == ExponentOf(m, b)
             q == (m * (2 ^ e)) \div b
             rest == 2 * ((m * (2 ^ e)) % b)
             up == rest > b \/ (rest = b /\ q % 2 = 1)
         IN  CHOOSE r \in {Dyadic(sgn * k, h) :
                              k \in {IF up THEN q + 1 ELSE q}, h \in {e}} : TRUE

\* The float nearest to the fraction x; x is evaluated once.
Fl(x) ==
    CHOOSE r \in {Nearest(a, b) : a \in {v.n : v \in {x}}, b \in {v.d : v \in {x}}} : TRUE

\* The rounded sum, difference, product and quotient of two floats; each
\* operand is evaluated once.
FlAdd(x, y) ==
    CHOOSE r \in {Fl([n |-> u.n * v.d + v.n * u.d, d |-> u.d * v.d]) :
                     u \in {x}, v \in {y}} : TRUE

FlSub(x, y) ==
    CHOOSE r \in {Fl([n |-> u.n * v.d - v.n * u.d, d |-> u.d * v.d]) :
                     u \in {x}, v \in {y}} : TRUE

FlMul(x, y) ==
    CHOOSE r \in {Fl([n |-> u.n * v.n, d |-> u.d * v.d]) : u \in {x}, v \in {y}} : TRUE

\* x / y for y > 0.
FlDiv(x, y) ==
    CHOOSE r \in {Fl([n |-> u.n * v.d, d |-> u.d * v.n]) : u \in {x}, v \in {y}} : TRUE

\* The float nearest to the square root of n/d, for 0 < n/d < 4**Bits.
NearestRoot(n, d) ==
    LET h == CHOOSE h \in 0 .. (4 * Bits) :
                 /\ n * (4 ^ h) >= (4 ^ (Bits - 1)) * d
                 /\ n * (4 ^ h) < (4 ^ Bits) * d
        whole == (n * (4 ^ h)) \div d
        root == CHOOSE r \in (2 ^ (Bits - 1)) .. (2 ^ Bits) :
                    r * r <= whole /\ whole < (r + 1) * (r + 1)
        up == (2 * root + 1) * (2 * root + 1) * d < 4 * n * (4 ^ h)
    IN  CHOOSE r \in {Dyadic(k, e) :
                         k \in {IF up THEN root + 1 ELSE root}, e \in {h}} : TRUE

\* np.sqrt of a float x >= 0.
FlSqrt(x) ==
    CHOOSE r \in {IF v.n = 0 THEN RInt(0) ELSE NearestRoot(v.n, v.d) : v \in {x}} : TRUE

\* Ar = (pu - pl)/(2. + pl + pu)
Ar_fl(pl, pu) == FlDiv(FlSub(pu, pl), FlAdd(FlAdd(RInt(2), pl), pu))

\* b,p = (1+pl)*(1. + (r1-1.)/(1.-Ar)), (1-r2)*pl + r2*pu
bp_above_fl(pl, pu, r1, r2) ==
    [b |-> FlMul(FlAdd(RInt(1), pl),
                 FlAdd(RInt(1), FlDiv(FlSub(r1, RInt(1)),
                                      FlSub(RInt(1), Ar_fl(pl, pu))))),
     p |-> FlAdd(FlMul(FlSub(RInt(1), r2), pl), FlMul(r2, pu))]

\* The r1 <= Ar branch with (1.+r2) in place of (1.-r2).
bp_below_fl_mirrored(pl, pu, r1, r2) ==
    LET root == FlSqrt(FlDiv(r1, Ar_fl(pl, pu)))
    IN  [b |-> FlAdd(FlAdd(RInt(1), pl), FlMul(FlMul(root, r2), FlSub(pu, pl))),
         p |-> FlAdd(pu, FlMul(FlMul(FlSub(pl, pu), root), FlAdd(RInt(1), r2)))]

\* b,p = (1. + pl) + np.sqrt(r1/Ar)*r2*(pu-pl),
\*       pu + (pl-pu)*np.sqrt(r1/Ar)*(1.-r2)
bp_below_fl(pl, pu, r1, r2) ==
    LET root == FlSqrt(FlDiv(r1, Ar_fl(pl, pu)))
    IN  [b |-> FlAdd(FlAdd(RInt(1), pl), FlMul(FlMul(root, r2), FlSub(pu, pl))),
         p |-> FlAdd(pu, FlMul(FlMul(FlSub(pl, pu), root), FlSub(RInt(1), r2)))]

\* if r1 > Ar: ... else: ...
efficient_bp_fl(pl, pu, r1, r2) ==
    IF RGt(r1, Ar_fl(pl, pu)) THEN bp_above_fl(pl, pu, r1, r2)
    ELSE bp_below_fl(pl, pu, r1, r2)

\* pl, pu, r1 and r2 are drawn in steps of 1/GateSteps.
GateSteps == 8

\* The floats nearest to the steps of [0,1].
Floats01 == {Fl(Rat(k, GateSteps)) : k \in 0 .. GateSteps}

\* b > 1.+p
BeyondGrazing(b, p) == RGt(b, FlAdd(RInt(1), p))

\* b > 1.+p or inc_inv_factor >= 1.
GeometryRejected_fl(b, p, inc_inv_factor) ==
    BeyondGrazing(b, p) \/ RGe(inc_inv_factor, RInt(1))

\* A circular orbit, for which inc_inv_factor = b/a.
Circular == [ecc |-> RInt(0), omega |-> [fn |-> "deg", y |-> 90, x |-> 0]]

\* loglike holds pl < pu, a sample's r1 and r2 (any float of the grid,
\* or Ar itself) and a scaled semi-major axis of 1 or 4.
InitGate ==
    \E pl \in Floats01, pu \in Floats01, r2 \in Floats01, a \in {1, 4} :
        /\ RLt(pl, pu)
        /\ \E r1 \in Floats01 \cup {Ar_fl(pl, pu)} :
              ProbeInit([pc |-> "drawn", pl |-> pl, pu |-> pu, r1 |-> r1,
                         r2 |-> r2, a |-> RInt(a), b |-> RInt(0), p |-> RInt(0),
                         inc_inv_factor |-> RInt(0), rejected |-> FALSE])

\* Lines 692-697 and 720-723 for a planet on a circular orbit.
GeometricGate ==
    /\ probe.pc = "drawn"
    /\ \E r \in {efficient_bp_fl(probe.pl, probe.pu, probe.r1, probe.r2)} :
          \E inc_inv_factor \in {IncInvFactor(probe.a, r.b, Circular.ecc, Circular.omega)} :
              probe' = [probe EXCEPT
                           !.pc = "gated", !.b = r.b, !.p = r.p,
                           !.inc_inv_factor = inc_inv_factor,
                           !.rejected = GeometryRejected_fl(r.b, r.p, inc_inv_factor)]
    /\ ProbeOnly

NextGate == GeometricGate

SpecGate == InitGate /\ [][NextGate]_vars

Ulp == Two(1 - Bits)

InputFiles ==
    {<<"lc_a", "none">>, <<"lc_b", "rv_a">>, <<"none", "rv_a">>}

PriorFiles == {"none", "priors_a", "priors_b"}

\* The samplers asked for: MultiNest or static dynesty.
FolderBackends == {Options(FALSE, FALSE, "none"), Options(TRUE, FALSE, "none")}

\* pickle.dump(out, open(out_folder + name, 'wb')): the file is created or
\* replaced.
pickle_dump(folder, name, content, n) ==
    [f \in DOMAIN folder \cup {name} |->
        IF f = name
        THEN [content |-> content, by |-> n,
              writes |-> IF name \in DOMAIN folder THEN folder[name].writes + 1
                         ELSE 1]
        ELSE folder[f]]

\* A copy made whatever the folder holds.
copy_always(folder, name, given, n) ==
    IF given # "none"
    THEN [f \in DOMAIN folder \cup {name} |->
             IF f = name
             THEN [content |-> given, by |-> n,
                   writes |-> IF name \in DOMAIN folder THEN folder[name].writes + 1
                              ELSE 1]
             ELSE folder[f]]
    ELSE folder

\* if (not os.path.exists(out_folder + name)) and (given is not None):
\*     os.system('cp ' + given + ' ' + out_folder + name)
copy_if_absent(folder, name, given, n) ==
    IF name \notin DOMAIN folder /\ given # "none"
    THEN [f \in DOMAIN folder \cup {name} |->
             IF f = name THEN [content |-> given, by |-> n, writes |-> 1]
             ELSE folder[f]]
    ELSE folder

\* The folder after the copies of the data files.
DataCopied(folder, files, n) ==
    copy_if_absent(copy_if_absent(folder, "lc.dat", files[1], n),
                   "rvs.dat", files[2], n)

\* An empty output folder and no run yet.
InitFolder ==
    ProbeInit([pc |-> "exited", n |-> 0, opts |-> Options(FALSE, FALSE, "none"),
               folder |-> <<>>, priors |-> "none", given |-> <<>>,
               resumed |-> FALSE])

\* The script is started: it copies the data files, reads the priors file
\* it was given (utils.readpriors raises without one), copies it, and
\* line 896 decides between sampling and loading.
Setup(opts, files, priorfile) ==
    /\ probe.pc \in {"exited", "no_priorfile", "FileNotFoundError"}
    /\ probe.n < MaxRuns
    /\ LET n == probe.n + 1
           copied == DataCopied(probe.folder, files, n)
       IN  probe' =
               IF priorfile = "none"
               THEN [probe EXCEPT !.pc = "no_priorfile", !.n = n, !.opts = opts,
                                  !.folder = copied, !.priors = "none",
                                  !.given = Append(@, priorfile),
                                  !.resumed = FALSE]
               ELSE [probe EXCEPT
                        !.pc = IF "posteriors.pkl" \in DOMAIN copied THEN "load"
                               ELSE "sample",
                        !.n = n, !.opts = opts,
                        !.folder = copy_if_absent(copied, "priors.dat", priorfile, n),
                        !.priors = priorfile,
                        !.given = Append(@, priorfile),
                        !.resumed = FALSE]
    /\ ProbeOnly

\* The sampler runs and out is dumped to the file the backend names.
SampleFolder ==
    /\ probe.pc = "sample"
    /\ probe' = [probe EXCEPT
                    !.pc = "exited",
                    !.folder = pickle_dump(@, PosteriorFile(probe.opts),
                                           probe.priors, probe.n)]
    /\ ProbeOnly

\* The else branch of line 896: the registry is read again, from the
\* priors.dat of the folder, and the pickle of the backend is opened.
LoadFolder ==
    /\ probe.pc = "load"
    /\ probe' = [probe EXCEPT
                    !.pc = IF PosteriorFile(probe.opts) \in DOMAIN probe.folder
                           THEN "exited" ELSE "FileNotFoundError",
                    !.priors = probe.folder["priors.dat"].content,
                    !.resumed = TRUE]
    /\ ProbeOnly

NextFolder ==
    \/ \E opts \in FolderBackends, files \in InputFiles, priorfile \in PriorFiles :
          Setup(opts, files, priorfile)
    \/ SampleFolder
    \/ LoadFolder

SpecFolder == InitFolder /\ [][NextFolder]_vars

\* The copies of the input files.
Copies == {"lc.dat", "rvs.dat", "priors.dat"}

\* The first run of the folder that was given a priors file.
FirstWithPriors(given) ==
    CHOOSE j \in 1..Len(given) :
        /\ given[j] # "none"
        /\ \A i \in 1..(j - 1) : given[i] = "none"

\* C29 as stated: a copy is written once, and a resumed run works with
\* the registry of the priors.dat the first run of the folder wrote,
\* whatever priors file it was given.
C29_ReloadedFromFirstRun ==
    /\ \A name \in Copies \cap DOMAIN probe.folder : probe.folder[name].writes = 1
    /\ probe.resumed =>
          /\ probe.folder["priors.dat"].by = 1
          /\ probe.priors = probe.folder["priors.dat"].content

\* C29, amended: a copy is written once; priors.dat is the copy made by
\* the first run of the folder that was given a priors file, and a resumed
\* run works with its registry, whatever priors file it was given itself.
C29_ReloadedFromFirstCopy ==
    /\ \A name \in Copies \cap DOMAIN probe.folder : probe.folder[name].writes = 1
    /\ "priors.dat" \in DOMAIN probe.folder =>
          /\ probe.folder["priors.dat"].by = FirstWithPriors(probe.given)
          /\ probe.folder["priors.dat"].content =
                probe.given[FirstWithPriors(probe.given)]
    /\ probe.resumed =>
          /\ "priors.dat" \in DOMAIN probe.folder
          /\ probe.priors = probe.folder["priors.dat"].content

\* C29 witness: a run given priors_b resumed in a folder whose priors.dat
\* is the copy of priors_a, and works with the registry of priors_a.
C29_Witness ==
    /\ probe.resumed
    /\ probe.pc = "exited"
    /\ probe.given[probe.n] = "priors_b"
    /\ probe.folder["priors.dat"].content = "priors_a"
    /\ probe.priors = "priors_a"

\* The white-noise terms of the RV instruments in a returned evaluation.
RvTermsOf(w) ==
    {j \in 1..Len(frame[w].ret.terms) : frame[w].ret.terms[j].kind = "gaussian_rv"}

\* C30: at most one of fitrvline and fitrvquad is true and the RV model
\* of an evaluation carries at most one trend; a quadratic is fitted only
\* with both rv_slope and rv_quad registered, and rv_quad without
\* rv_slope gives no trend.
C30_TrendsExclusive ==
    LET slope == PName("rv_slope", 0) \in Keys(cfg.priors)
        quad == PName("rv_quad", 0) \in Keys(cfg.priors)
    IN  /\ ~(fitrvline(cfg) /\ fitrvquad(cfg))
        /\ fitrvquad(cfg) => (slope /\ quad)
        /\ (quad /\ ~slope) => (~fitrvline(cfg) /\ ~fitrvquad(cfg))
        /\ \A w \in Returned : \A j \in RvTermsOf(w) :
              LET trend == frame[w].ret.terms[j].trend
              IN  /\ Len(trend) \in {0, 2, 3}
                  /\ Len(trend) = 3 <=> (slope /\ quad)
                  /\ Len(trend) = 2 <=> (slope /\ ~quad)

\* C30 witness: an evaluation with rv_quad = 2 registered and no rv_slope
\* returned an RV term without trend.
C30_Witness ==
    /\ cfg.id = "rvquadonly"
    /\ \E w \in Returned :
          /\ ValueInCall(w, PName("rv_quad", 0)) = 2
          /\ RvTermsOf(w) # {}
          /\ \A j \in RvTermsOf(w) : frame[w].ret.terms[j].trend = <<>>
====
